---------------------------- MODULE Spec2Model ----------------------------
(***************************************************************************)
(* FerrumPy value reflection engine: type-name normaliser, path resolver   *)
(* and snapshot serializer (src/python/ferrumpy).                          *)
(*                                                                         *)
(* Text is modelled as a sequence of lexemes.  A lexeme is a TLA+ string   *)
(* standing for one or more characters of the Python string; the lexeme    *)
(* alphabet is chosen so that every literal and character class the code   *)
(* matches falls on lexeme boundaries ("GlobalConfig" is the two lexemes   *)
(* "Global","Config", so that a match of the literal "Global" against a    *)
(* prefix of an identifier is still visible).  The Python string is the    *)
(* concatenation of the lexemes.                                           *)
(***************************************************************************)
EXTENDS Integers, Sequences, FiniteSets, TLC

VARIABLES
    pc,          \* position of the driver: which call has been made
    lldb_type,   \* normaliser: the type signature handed to normalize_type_name
    canon,       \* normaliser: normalize_type_name(lldb_type)
    canon2,      \* normaliser: normalize_type_name(canon)
    dispatched,  \* dispatch: the branch value_to_json and the formatter format_value select
    path,        \* path resolver: the path text handed to tokenize_path / resolve_path
    path_tokens, \* path resolver: the tokens the path text was written from (<<>>: free text)
    tokenized,   \* path resolver: outcome of tokenize_path(path)
    rendered,    \* path resolver: the segment list of tokenized written back as text
    tokenized2,  \* path resolver: outcome of tokenize_path(rendered)
    frame,       \* the stopped frame: its variables and the debuggee memory behind them
    todo,        \* resolve_path: the segment list of the path
    position,    \* resolve_path: index of the next segment to apply
    reached,     \* resolve_path: the SBValue reached so far
    trail,       \* resolve_path: the values reached after each applied segment
    resolved,    \* resolve_path: what the call returned or raised
    target,      \* serializer: the SBValue handed to value_to_json
    stack,       \* serializer: the running container serialisers, innermost last
    visited,     \* serializer: the visited set of the running top-level call
    calls,       \* serializer: the calls of value_to_json so far, in the order entered
    snapshot,    \* serializer: what value_to_json(target) returned or raised
    dump,        \* serializer: what serialize_frame returned
    probes,      \* the accesses to the debuggee made so far: data pointers resolved,
                 \* values constructed at an address, memory read
    options,     \* formatter: the FormatOptions of the top-level format_value call
    formatted,   \* formatter: what format_value(target) returned
    connection,  \* bridge: the ServerConnection (_process, _request_id, _initialized)
    stdin,       \* bridge: the requests written to the server subprocess so far
    history      \* bridge: the calls made on the connection and how each ended

normVars == <<lldb_type, canon, canon2>>
pathVars == <<path, path_tokens, tokenized, rendered, tokenized2>>
resolveVars == <<todo, position, reached, trail, resolved>>
formatVars == <<options, formatted>>
serializeVars == <<target, stack, visited, calls, snapshot, dump, probes, formatVars>>
bridgeVars == <<connection, stdin, history>>
vars == <<pc, normVars, dispatched, pathVars, frame, resolveVars, serializeVars, bridgeVars>>

\* the value of a variable the running driver does not use, or has not set yet
Idle == <<"idle">>

NormalizeIdle == lldb_type = Idle /\ canon = Idle /\ canon2 = Idle
TokenizeIdle ==
    /\ path = Idle /\ path_tokens = Idle /\ tokenized = Idle
    /\ rendered = Idle /\ tokenized2 = Idle
ResolveIdle ==
    /\ todo = Idle /\ position = Idle /\ reached = Idle
    /\ trail = Idle /\ resolved = Idle
FormatIdle == options = Idle /\ formatted = Idle
SerializeIdle ==
    /\ target = Idle /\ stack = Idle /\ visited = Idle /\ calls = Idle
    /\ snapshot = Idle /\ dump = Idle /\ probes = Idle /\ FormatIdle
BridgeIdle == connection = Idle /\ stdin = Idle /\ history = Idle

(***************************************************************************)
(* Lexeme classes (Python re: \w, \d, \s).                                 *)
(***************************************************************************)
AsciiDigits == {"0", "1", "2", "3", "4", "5", "6", "7", "8", "9"}

\* \d of a str pattern matches every Unicode decimal digit; the lexeme
\* "U+0663" stands for the one-character string ARABIC-INDIC DIGIT THREE.
DigitLexemes == AsciiDigits \cup {"U+0663"}

WordLexemes ==
    DigitLexemes \cup
    { "alloc", "vec", "Vec", "string", "String", "core", "option", "Option",
      "result", "Result", "boxed", "Box", "sync", "Arc", "rc", "Rc", "std",
      "collections", "hash", "map", "HashMap", "random", "RandomState",
      "Global", "Config", "cell", "RefCell", "Cell", "Ref", "RefMut",
      "rust_sample", "User", "Wrapper", "Node", "RcBox", "RcInner", "ArcInner",
      "int", "signed", "unsigned", "long", "short", "char", "float", "double",
      "_Bool", "bool", "i8", "i16", "i32", "i64", "i128", "isize", "u8", "u16",
      "u32", "u64", "u128", "usize", "f32", "f64", "str", "K", "V",
      "a", "b", "_", "__", "x", "const", "mut", "Some", "None", "Ok", "Err",
      "users", "name", "age", "config", "arr", "boxed_user", "pair", "missing",
      "buf", "inner", "ptr", "pointer", "len", "cap", "value", "data", "strong",
      "weak", "next", "id", "score", "items", "first", "second", "hashbrown",
      "user", "raw", "raw_vec", "variants", "variant", "discr", "borrow",
      "non_null", "NonNull", "ptr", "point", "values", "numbers", "head", "tail" }

IsWord(c) == c \in WordLexemes
IsDigit(c) == c \in DigitLexemes
IsSpace(c) == c = " "
\* the classes [a-zA-Z_] and [a-zA-Z0-9_]
IsIdentStart(c) == c \in WordLexemes \ DigitLexemes
IsIdentChar(c) == c \in WordLexemes \ {"U+0663"}

(***************************************************************************)
(* str primitives.                                                         *)
(***************************************************************************)
Drop(s, n) == SubSeq(s, n + 1, Len(s))
Take(s, n) == SubSeq(s, 1, n)

\* str.startswith / str.endswith
StartsWith(s, lit) == Len(s) >= Len(lit) /\ Take(s, Len(lit)) = lit
EndsWith(s, lit) == Len(s) >= Len(lit) /\ Drop(s, Len(s) - Len(lit)) = lit

\* `lit in s`
Contains(s, lit) ==
    \E i \in 0..(Len(s) - Len(lit)) : SubSeq(s, i + 1, i + Len(lit)) = lit

\* number of leading lexemes of s satisfying the class (a greedy  X*  run)
RECURSIVE SpanSpace(_)
SpanSpace(s) ==
    IF s # <<>> /\ IsSpace(Head(s)) THEN 1 + SpanSpace(Tail(s)) ELSE 0

RECURSIVE SpanWord(_)
SpanWord(s) ==
    IF s # <<>> /\ IsWord(Head(s)) THEN 1 + SpanWord(Tail(s)) ELSE 0

RECURSIVE SpanIdentChar(_)
SpanIdentChar(s) ==
    IF s # <<>> /\ IsIdentChar(Head(s)) THEN 1 + SpanIdentChar(Tail(s)) ELSE 0

RECURSIVE SpanDigit(_)
SpanDigit(s) ==
    IF s # <<>> /\ IsDigit(Head(s)) THEN 1 + SpanDigit(Tail(s)) ELSE 0

RECURSIVE TrailingSpace(_)
TrailingSpace(s) ==
    IF s # <<>> /\ IsSpace(s[Len(s)]) THEN 1 + TrailingSpace(Take(s, Len(s) - 1))
    ELSE 0

\* str.strip()
Strip(s) == SubSeq(s, SpanSpace(s) + 1, Len(s) - TrailingSpace(s))

\* s.split('::')[-1]
LastComponent(s) ==
    LET seps == {i \in 1..Len(s) : s[i] = "::"}
    IN  IF seps = {} THEN s
        ELSE Drop(s, CHOOSE i \in seps : \A j \in seps : j <= i)

\* ', '.join(parts)
RECURSIVE JoinComma(_)
JoinComma(parts) ==
    IF parts = <<>> THEN <<>>
    ELSE IF Len(parts) = 1 THEN parts[1]
    ELSE parts[1] \o <<",", " ">> \o JoinComma(Tail(parts))


(***************************************************************************)
(* serializer.py: type-name normalisation tables.                          *)
(***************************************************************************)
AllocGlobal == <<"alloc", "::", "alloc", "::", "Global">>
HashRandomState == <<"std", "::", "hash", "::", "random", "::", "RandomState">>
MapRandomState ==
    <<"std", "::", "collections", "::", "hash", "::", "map", "::", "RandomState">>
StdVec == <<"alloc", "::", "vec", "::", "Vec">>
StdString == <<"alloc", "::", "string", "::", "String">>
StdOption == <<"core", "::", "option", "::", "Option">>
StdResult == <<"core", "::", "result", "::", "Result">>
StdBox == <<"alloc", "::", "boxed", "::", "Box">>
StdArc == <<"alloc", "::", "sync", "::", "Arc">>
StdRc == <<"alloc", "::", "rc", "::", "Rc">>
StdHashMap ==
    <<"std", "::", "collections", "::", "hash", "::", "map", "::", "HashMap">>

\* The ordered (pattern, replacement) table.  kind names the pattern's shape:
\*   "exact"   ^pre$                       -> name
\*   "generic" ^pre<(.+)>$                 -> name<\1>
\*   "suffix"  ^pre<(.+),\s*suf>$          -> name<\1>
\*   "two"     ^pre<(.+),\s*(.+)>$         -> name<\1, \2>
\*   "three"   ^pre<(.+),\s*(.+),\s*suf>$  -> name<\1, \2>
TYPE_NORMALIZATION ==
    << [kind |-> "suffix",  pre |-> StdVec,     suf |-> AllocGlobal, name |-> <<"Vec">>],
       [kind |-> "exact",   pre |-> StdString,  suf |-> <<>>,        name |-> <<"String">>],
       [kind |-> "generic", pre |-> StdVec,     suf |-> <<>>,        name |-> <<"Vec">>],
       [kind |-> "generic", pre |-> StdOption,  suf |-> <<>>,        name |-> <<"Option">>],
       [kind |-> "two",     pre |-> StdResult,  suf |-> <<>>,        name |-> <<"Result">>],
       [kind |-> "generic", pre |-> StdBox,     suf |-> <<>>,        name |-> <<"Box">>],
       [kind |-> "suffix",  pre |-> StdArc,     suf |-> AllocGlobal, name |-> <<"Arc">>],
       [kind |-> "generic", pre |-> StdArc,     suf |-> <<>>,        name |-> <<"Arc">>],
       [kind |-> "suffix",  pre |-> StdRc,      suf |-> AllocGlobal, name |-> <<"Rc">>],
       [kind |-> "generic", pre |-> StdRc,      suf |-> <<>>,        name |-> <<"Rc">>],
       [kind |-> "exact",   pre |-> <<"&", "str">>, suf |-> <<>>,    name |-> <<"&", "str">>],
       [kind |-> "three",   pre |-> StdHashMap, suf |-> HashRandomState, name |-> <<"HashMap">>],
       [kind |-> "generic", pre |-> StdHashMap, suf |-> <<>>,        name |-> <<"HashMap">>] >>

C_TO_RUST_TYPES ==
    { [c |-> <<"int">>,                                rust |-> <<"i32">>],
      [c |-> <<"signed", " ", "int">>,                 rust |-> <<"i32">>],
      [c |-> <<"long">>,                               rust |-> <<"i64">>],
      [c |-> <<"signed", " ", "long">>,                rust |-> <<"i64">>],
      [c |-> <<"long", " ", "long">>,                  rust |-> <<"i64">>],
      [c |-> <<"signed", " ", "long", " ", "long">>,   rust |-> <<"i64">>],
      [c |-> <<"short">>,                              rust |-> <<"i16">>],
      [c |-> <<"signed", " ", "short">>,               rust |-> <<"i16">>],
      [c |-> <<"signed", " ", "char">>,                rust |-> <<"i8">>],
      [c |-> <<"unsigned", " ", "int">>,               rust |-> <<"u32">>],
      [c |-> <<"unsigned", " ", "long">>,              rust |-> <<"u64">>],
      [c |-> <<"unsigned", " ", "long", " ", "long">>, rust |-> <<"u64">>],
      [c |-> <<"unsigned", " ", "short">>,             rust |-> <<"u16">>],
      [c |-> <<"unsigned", " ", "char">>,              rust |-> <<"u8">>],
      [c |-> <<"float">>,                              rust |-> <<"f32">>],
      [c |-> <<"double">>,                             rust |-> <<"f64">>],
      [c |-> <<"_Bool">>,                              rust |-> <<"bool">>],
      [c |-> <<"char">>,                               rust |-> <<"char">>] }

\* `t in C_TO_RUST_TYPES` and `C_TO_RUST_TYPES[t]`
IsCType(t) == \E e \in C_TO_RUST_TYPES : e.c = t
CToRust(t) == (CHOOSE e \in C_TO_RUST_TYPES : e.c = t).rust

(***************************************************************************)
(* re.sub(r',\s*<lit>', '', s): every leftmost non-overlapping match of a  *)
(* comma, any whitespace and the literal is deleted.  The literal is       *)
(* matched as text: nothing is required of what follows it.                *)
(***************************************************************************)
RECURSIVE SubCommaLiteral(_, _)
SubCommaLiteral(s, lit) ==
    IF s = <<>> THEN <<>>
    ELSE IF Head(s) = ","
              /\ StartsWith(Drop(Tail(s), SpanSpace(Tail(s))), lit)
         THEN SubCommaLiteral(Drop(Tail(s), SpanSpace(Tail(s)) + Len(lit)), lit)
         ELSE <<Head(s)>> \o SubCommaLiteral(Tail(s), lit)

\* _remove_allocators without the bare `Global` pattern
RemoveQualifiedAllocatorsOnly(type_str) ==
    SubCommaLiteral(
        SubCommaLiteral(SubCommaLiteral(type_str, AllocGlobal), HashRandomState),
        MapRandomState)

\* serializer.py _remove_allocators: the four patterns, applied in order.
_remove_allocators(type_str) ==
    SubCommaLiteral(
        SubCommaLiteral(
            SubCommaLiteral(
                SubCommaLiteral(type_str, AllocGlobal),
                <<"Global">>),
            HashRandomState),
        MapRandomState)

(***************************************************************************)
(* Matching one row of TYPE_NORMALIZATION (re.match, then re.sub).         *)
(***************************************************************************)
\* the text between  pre<  and the last tailLen lexemes
Middle(s, pre, tailLen) == SubSeq(s, Len(pre) + 2, Len(s) - tailLen)

\* X of  ^(.+),\s*$ : body minus its trailing whitespace and the comma
BeforeTrailingComma(body) == Take(body, Len(body) - TrailingSpace(body) - 1)
HasTrailingComma(body) ==
    LET n == Len(body) - TrailingSpace(body)
    IN  n >= 2 /\ body[n] = ","

\* ^(.+),\s*(.+)$ : the greedy first group ends at the last comma that
\* leaves at least one character on each side
SplitCommas(m) == {i \in 2..(Len(m) - 1) : m[i] = ","}
LastSplitComma(m) == CHOOSE i \in SplitCommas(m) : \A j \in SplitCommas(m) : j <= i
GroupOne(m) == Take(m, LastSplitComma(m) - 1)
GroupTwo(m) ==
    LET r == Drop(m, LastSplitComma(m))
        k == SpanSpace(r)
    IN  IF k = Len(r) THEN Drop(r, k - 1) ELSE Drop(r, k)

\* re.match(pattern, s)
RuleMatches(rule, s) ==
    CASE rule.kind = "exact" -> s = rule.pre
      [] rule.kind = "generic" ->
            /\ StartsWith(s, rule.pre \o <<"<">>)
            /\ Len(s) >= Len(rule.pre) + 3
            /\ s[Len(s)] = ">"
      [] rule.kind = "suffix" ->
            /\ StartsWith(s, rule.pre \o <<"<">>)
            /\ EndsWith(s, rule.suf \o <<">">>)
            /\ Len(s) >= Len(rule.pre) + Len(rule.suf) + 4
            /\ HasTrailingComma(Middle(s, rule.pre, Len(rule.suf) + 1))
      [] rule.kind = "two" ->
            /\ StartsWith(s, rule.pre \o <<"<">>)
            /\ Len(s) >= Len(rule.pre) + 5
            /\ s[Len(s)] = ">"
            /\ SplitCommas(Middle(s, rule.pre, 1)) # {}
      [] rule.kind = "three" ->
            /\ StartsWith(s, rule.pre \o <<"<">>)
            /\ EndsWith(s, rule.suf \o <<">">>)
            /\ Len(s) >= Len(rule.pre) + Len(rule.suf) + 6
            /\ HasTrailingComma(Middle(s, rule.pre, Len(rule.suf) + 1))
            /\ SplitCommas(BeforeTrailingComma(Middle(s, rule.pre, Len(rule.suf) + 1))) # {}

\* re.sub(pattern, replacement, s) for a row that matches
RuleSub(rule, s) ==
    CASE rule.kind = "exact" -> rule.name
      [] rule.kind = "generic" ->
            rule.name \o <<"<">> \o Middle(s, rule.pre, 1) \o <<">">>
      [] rule.kind = "suffix" ->
            rule.name \o <<"<">>
                \o BeforeTrailingComma(Middle(s, rule.pre, Len(rule.suf) + 1))
                \o <<">">>
      [] rule.kind = "two" ->
            rule.name \o <<"<">> \o GroupOne(Middle(s, rule.pre, 1))
                \o <<",", " ">> \o GroupTwo(Middle(s, rule.pre, 1)) \o <<">">>
      [] rule.kind = "three" ->
            LET m == BeforeTrailingComma(Middle(s, rule.pre, Len(rule.suf) + 1))
            IN  rule.name \o <<"<">> \o GroupOne(m)
                    \o <<",", " ">> \o GroupTwo(m) \o <<">">>

\* index of the first row that matches, 0 when none does
FirstMatchingRule(s) ==
    LET hits == {i \in 1..Len(TYPE_NORMALIZATION) : RuleMatches(TYPE_NORMALIZATION[i], s)}
    IN  IF hits = {} THEN 0 ELSE CHOOSE i \in hits : \A j \in hits : i <= j

(***************************************************************************)
(* serializer.py _split_generic_params: the character loop.                *)
(***************************************************************************)
RECURSIVE SplitLoop(_, _, _, _)
SplitLoop(params, current, depth, result) ==
    IF params = <<>>
    THEN IF Strip(current) # <<>> THEN Append(result, Strip(current)) ELSE result
    ELSE LET char == Head(params)
         IN  IF char = "<"
             THEN SplitLoop(Tail(params), Append(current, char), depth + 1, result)
             ELSE IF char = ">"
             THEN SplitLoop(Tail(params), Append(current, char), depth - 1, result)
             ELSE IF char = "," /\ depth = 0
             THEN SplitLoop(Tail(params), <<>>, depth, Append(result, Strip(current)))
             ELSE SplitLoop(Tail(params), Append(current, char), depth, result)

\* a split at every comma, whatever the depth
SplitAtEveryComma(params) == SplitLoop(params, <<>>, 0 - Len(params) - 1, <<>>)

_split_generic_params(params) == SplitLoop(params, <<>>, 0, <<>>)

\* serializer.py _simplify_module_path
known_types ==
    { [full |-> StdVec, short |-> <<"Vec">>],
      [full |-> StdString, short |-> <<"String">>],
      [full |-> StdOption, short |-> <<"Option">>],
      [full |-> StdResult, short |-> <<"Result">>],
      [full |-> StdBox, short |-> <<"Box">>],
      [full |-> StdArc, short |-> <<"Arc">>],
      [full |-> StdRc, short |-> <<"Rc">>],
      [full |-> StdHashMap, short |-> <<"HashMap">>],
      [full |-> <<"std", "::", "collections", "::", "HashMap">>, short |-> <<"HashMap">>],
      [full |-> <<"std", "::", "cell", "::", "RefCell">>, short |-> <<"RefCell">>],
      [full |-> <<"std", "::", "cell", "::", "Cell">>, short |-> <<"Cell">>] }

_simplify_module_path(type_name) ==
    IF \E e \in known_types : e.full = type_name
    THEN (CHOOSE e \in known_types : e.full = type_name).short
    ELSE IF Contains(type_name, <<"::">>) THEN LastComponent(type_name)
    ELSE type_name

\* ^([^<]+)<(.+)>$
FirstLt(s) == CHOOSE i \in 1..Len(s) : s[i] = "<" /\ \A j \in 1..(i - 1) : s[j] # "<"
GenericMatches(s) ==
    /\ Contains(s, <<"<">>)
    /\ FirstLt(s) >= 2
    /\ Len(s) >= FirstLt(s) + 2
    /\ s[Len(s)] = ">"
GenericOuter(s) == Take(s, FirstLt(s) - 1)
GenericInner(s) == SubSeq(s, FirstLt(s) + 1, Len(s) - 1)

\* ^(\w+)\[(\d+)\]$
ArrayMatches(s) ==
    LET w == SpanWord(s)
        d == SpanDigit(Drop(s, w + 1))
    IN  /\ w >= 1
        /\ Len(s) = w + d + 2
        /\ d >= 1
        /\ s[w + 1] = "["
        /\ s[Len(s)] = "]"
ArrayElem(s) == Take(s, SpanWord(s))
ArraySize(s) == SubSeq(s, SpanWord(s) + 2, Len(s) - 1)

(***************************************************************************)
(* serializer.py normalize_type_name and the helpers it recurses through.  *)
(***************************************************************************)
RECURSIVE normalize_type_name(_)
RECURSIVE _normalize_generic_type(_)
RECURSIVE NormalizeEach(_)

\* [normalize_type_name(t.strip()) for t in inner_types]
NormalizeEach(parts) ==
    IF parts = <<>> THEN <<>>
    ELSE <<normalize_type_name(Strip(Head(parts)))>> \o NormalizeEach(Tail(parts))

_normalize_generic_type(type_str) ==
    IF ~GenericMatches(type_str) THEN type_str
    ELSE _simplify_module_path(GenericOuter(type_str)) \o <<"<">>
            \o JoinComma(NormalizeEach(_split_generic_params(GenericInner(type_str))))
            \o <<">">>

_normalize_inner_types(type_str) ==
    IF Contains(type_str, <<"<">>) THEN _normalize_generic_type(type_str)
    ELSE IF IsCType(type_str) THEN CToRust(type_str)
    ELSE type_str

_extract_type_name(full_path) ==
    IF ~Contains(full_path, <<"::">>) THEN full_path
    ELSE IF Contains(full_path, <<"<">>) /\ GenericMatches(full_path)
    THEN LastComponent(GenericOuter(full_path)) \o <<"<">>
            \o normalize_type_name(GenericInner(full_path)) \o <<">">>
    ELSE LastComponent(full_path)

\* Step 5: int[5] -> [i32; 5]
NormalizeArray(t) ==
    <<"[">> \o (IF IsCType(ArrayElem(t)) THEN CToRust(ArrayElem(t)) ELSE ArrayElem(t))
        \o <<";", " ">> \o ArraySize(t) \o <<"]">>

\* Steps 2..6, on the signature with its allocators already removed
NormalizeStripped(t) ==
    IF IsCType(t) THEN CToRust(t)
    ELSE IF FirstMatchingRule(t) # 0
    THEN _normalize_inner_types(RuleSub(TYPE_NORMALIZATION[FirstMatchingRule(t)], t))
    ELSE IF Contains(t, <<"<">>) THEN _normalize_generic_type(t)
    ELSE IF ArrayMatches(t) THEN NormalizeArray(t)
    ELSE IF Contains(t, <<"::">>) /\ ~StartsWith(t, <<"&">>) THEN _extract_type_name(t)
    ELSE t

normalize_type_name(type_name) ==
    IF type_name = <<>> THEN type_name
    ELSE NormalizeStripped(_remove_allocators(type_name))


(***************************************************************************)
(* Type signatures handed to the normaliser: the spellings the debugger    *)
(* produces for scalars, user types, arrays and std generics, the latter   *)
(* with and without their allocator / hasher arguments, nested up to       *)
(* MaxDepth levels.                                                        *)
(***************************************************************************)
MaxDepth == 2

UserType == <<"rust_sample", "::", "User">>

LeafTypes ==
    { <<"i32">>, <<"int">>, <<"unsigned", " ", "long">>, StdString, UserType,
      <<"Global", "Config">>, <<"int", "[", "5", "]">>,
      UserType \o <<"[", "3", "]">>, <<"unsigned", " ", "long", "[", "2", "]">> }

\* one generic wrapper around the signature t
Wrappers(t) ==
    { StdVec \o <<"<">> \o t \o <<",", " ">> \o AllocGlobal \o <<">">>,
      <<"Vec", "<">> \o t \o <<",", " ", "Global", ">">>,
      StdOption \o <<"<">> \o t \o <<">">>,
      StdBox \o <<"<">> \o t \o <<",", " ">> \o AllocGlobal \o <<">">>,
      StdRc \o <<"<">> \o t \o <<">">>,
      <<"rust_sample", "::", "Wrapper", "<">> \o t \o <<">">>,
      StdResult \o <<"<">> \o t \o <<",", " ">> \o StdString \o <<">">>,
      StdHashMap \o <<"<">> \o StdString \o <<",", " ">> \o t
          \o <<",", " ">> \o HashRandomState \o <<">">>,
      <<"HashMap", "<", "K", ",", " ">> \o t \o <<",">> \o MapRandomState \o <<">">> }

RECURSIVE TypesUpTo(_)
TypesUpTo(d) ==
    IF d = 0 THEN LeafTypes
    ELSE TypesUpTo(d - 1) \cup UNION {Wrappers(t) : t \in TypesUpTo(d - 1)}

\* the signatures the documentation and the tests of _remove_allocators use
ExampleSigs ==
    { <<"Vec", "<", "i32", ",", " ">> \o AllocGlobal \o <<">">>,
      <<"HashMap", "<", "String", ",", " ", "i32", ",", " ">> \o HashRandomState \o <<">">>,
      <<"Vec", "<", "Vec", "<", "i32", ",", " ", "Global", ">", ",", " ", "Global", ">">> }

TypeSigs == TypesUpTo(MaxDepth) \cup ExampleSigs

(***************************************************************************)
(* Driver of the normaliser: normalize_type_name is applied to a signature *)
(* and then to its own result.                                             *)
(***************************************************************************)
InitNormalize ==
    /\ BridgeIdle
    /\ pc = "start"
    /\ lldb_type \in TypeSigs
    /\ canon = Idle
    /\ canon2 = Idle
    /\ dispatched = Idle
    /\ TokenizeIdle
    /\ frame = Idle /\ ResolveIdle /\ SerializeIdle

Normalize ==
    /\ pc = "start"
    /\ canon' = normalize_type_name(lldb_type)
    /\ pc' = "normalized"
    /\ UNCHANGED <<lldb_type, canon2, dispatched, pathVars, frame, bridgeVars, resolveVars, serializeVars>>

NormalizeAgain ==
    /\ pc = "normalized"
    /\ canon2' = normalize_type_name(canon)
    /\ pc' = "renormalized"
    /\ UNCHANGED <<lldb_type, canon, dispatched, pathVars, frame, bridgeVars, resolveVars, serializeVars>>

NextNormalize == Normalize \/ NormalizeAgain

SpecNormalize == InitNormalize /\ [][NextNormalize]_vars


(***************************************************************************)
(* C1.  normalize_type_name is idempotent: normalising the result of a     *)
(* normalisation gives that result back, for every signature (module-      *)
(* qualified names, C scalar aliases, generic lists, Elem[N] arrays).      *)
(***************************************************************************)
NormalizeIdempotent == pc = "renormalized" => canon2 = canon

(***************************************************************************)
(* C10.  After normalisation no default-allocator or default-hasher type   *)
(* argument is left anywhere in the name, nested generics included, and    *)
(* the documented examples give the documented results.                    *)
(***************************************************************************)
AllocatorNames == {AllocGlobal, <<"Global">>, HashRandomState, MapRandomState}

\* a comma, whitespace and then an allocator name that is a whole argument
\* (the identifier ends there) at position i of s
AllocatorArgAt(s, i) ==
    /\ s[i] = ","
    /\ LET r == Drop(s, i + SpanSpace(Drop(s, i)))
       IN  \E a \in AllocatorNames :
              /\ StartsWith(r, a)
              /\ (Len(r) = Len(a) \/ ~IsWord(r[Len(a) + 1]))

HasAllocatorArg(s) == \E i \in 1..Len(s) : AllocatorArgAt(s, i)

AllocatorsRemoved ==
    pc = "normalized" =>
        /\ ~HasAllocatorArg(canon)
        /\ (lldb_type = <<"Vec", "<", "i32", ",", " ">> \o AllocGlobal \o <<">">>
                => canon = <<"Vec", "<", "i32", ">">>)
        /\ (lldb_type = <<"HashMap", "<", "String", ",", " ", "i32", ",", " ">>
                            \o HashRandomState \o <<">">>
                => canon = <<"HashMap", "<", "String", ",", " ", "i32", ">">>)
        /\ (lldb_type = <<"Vec", "<", "Vec", "<", "i32", ",", " ", "Global", ">",
                          ",", " ", "Global", ">">>
                => canon = <<"Vec", "<", "Vec", "<", "i32", ">", ">">>)

\* a nested signature with an allocator at both levels has been normalised
AllocatorsRemovedWitness ==
    /\ pc = "normalized"
    /\ lldb_type = StdVec \o <<"<">> \o StdVec \o <<"<", "int", ",", " ">> \o AllocGlobal
                       \o <<">", ",", " ">> \o AllocGlobal \o <<">">>
    /\ canon = <<"Vec", "<", "Vec", "<", "i32", ">", ">">>

\* the position of the bracket that opens the size of a signature spelled
\* ElemType[N] (an element type, then digits between a last pair of brackets),
\* or 0 for any other signature
SizeBracket(s) ==
    LET opens == { i \in 2..(Len(s) - 2) :
                     /\ s[i] = "["
                     /\ \A j \in (i + 1)..(Len(s) - 1) : IsDigit(s[j]) }
    IN  IF Len(s) >= 4 /\ s[Len(s)] = "]" /\ ~Contains(s, <<"<">>) /\ opens # {}
        THEN CHOOSE i \in opens : TRUE
        ELSE 0

(***************************************************************************)
(* C19.  A signature spelled as a fixed-size array ElemType[N] is          *)
(* normalised to [E; N], E being the normalised element type: every scalar *)
(* alias of the C-to-Rust table, the multi-word ones (unsigned long, long   *)
(* long) included, is replaced by its fixed-width Rust name.               *)
(***************************************************************************)
ArrayRespelled ==
    (pc = "normalized" /\ SizeBracket(lldb_type) # 0) =>
        canon = <<"[">> \o normalize_type_name(Take(lldb_type, SizeBracket(lldb_type) - 1))
                    \o <<";", " ">>
                    \o SubSeq(lldb_type, SizeBracket(lldb_type) + 1, Len(lldb_type) - 1)
                    \o <<"]">>


(***************************************************************************)
(* path_resolver.py: path segments and tokenize_path.                      *)
(***************************************************************************)
IdentSegment(name) == [kind |-> "IdentSegment", name |-> name]
IndexSegment(index) == [kind |-> "IndexSegment", index |-> index]
DerefSegment == [kind |-> "DerefSegment"]

\* raise PathResolutionError(message)
PathResolutionError(message) ==
    [ok |-> FALSE, error |-> "PathResolutionError", message |-> message]

\* int(text) of a run of decimal digits, and str(n)
DigitValue(c) ==
    CASE c = "0" -> 0 [] c = "1" -> 1 [] c = "2" -> 2 [] c = "3" -> 3 [] c = "4" -> 4
      [] c = "5" -> 5 [] c = "6" -> 6 [] c = "7" -> 7 [] c = "8" -> 8 [] c = "9" -> 9
      [] c = "U+0663" -> 3

DigitChar(n) == <<"0", "1", "2", "3", "4", "5", "6", "7", "8", "9">>[n + 1]

RECURSIVE ParseInt(_)
ParseInt(digits) ==
    IF digits = <<>> THEN 0
    ELSE 10 * ParseInt(Take(digits, Len(digits) - 1)) + DigitValue(digits[Len(digits)])

RECURSIVE IntToStr(_)
IntToStr(n) ==
    IF n < 10 THEN <<DigitChar(n)>> ELSE IntToStr(n \div 10) \o <<DigitChar(n % 10)>>

\* length of the match of ^([a-zA-Z_][a-zA-Z0-9_]*), 0 when there is none
IdentLen(s) ==
    IF s # <<>> /\ IsIdentStart(Head(s)) THEN 1 + SpanIdentChar(Tail(s)) ELSE 0

\* f"__{match.group(1)}", and the field name without the prefix
TupleFieldNameBare(digits) == digits
TupleFieldName(digits) == <<"__">> \o digits

\* int(match.group(1)), and an index off by one
IndexValueSuccessor(digits) == ParseInt(digits) + 1
IndexValue(digits) == ParseInt(digits)

\* ^\[(\d+) : the pattern without its closing bracket
IndexMatchesUnclosed(s) == s # <<>> /\ Head(s) = "[" /\ SpanDigit(Tail(s)) >= 1
\* ^\[(\d+)\]
IndexMatches(s) ==
    /\ s # <<>> /\ Head(s) = "["
    /\ SpanDigit(Tail(s)) >= 1
    /\ Len(s) >= SpanDigit(Tail(s)) + 2
    /\ s[SpanDigit(Tail(s)) + 2] = "]"

\* the loop of tokenize_path, remaining being the text not yet consumed
RECURSIVE TokenizeLoop(_, _)
TokenizeLoop(remaining, segments) ==
    IF remaining = <<>> THEN [ok |-> TRUE, segments |-> segments]
    ELSE IF Head(remaining) = "."
    THEN LET rest == Tail(remaining)
         IN  IF rest # <<>> /\ Head(rest) = "*"
             THEN TokenizeLoop(Tail(rest), Append(segments, DerefSegment))
             ELSE IF SpanDigit(rest) >= 1
             THEN TokenizeLoop(Drop(rest, SpanDigit(rest)),
                      Append(segments, IdentSegment(TupleFieldName(Take(rest, SpanDigit(rest))))))
             ELSE IF IdentLen(rest) >= 1
             THEN TokenizeLoop(Drop(rest, IdentLen(rest)),
                      Append(segments, IdentSegment(Take(rest, IdentLen(rest)))))
             ELSE PathResolutionError(<<"Invalid field access at: ", ".">> \o rest)
    ELSE IF Head(remaining) = "["
    THEN IF IndexMatches(remaining)
         THEN TokenizeLoop(Drop(remaining, SpanDigit(Tail(remaining)) + 2),
                  Append(segments,
                      IndexSegment(IndexValue(SubSeq(remaining, 2, SpanDigit(Tail(remaining)) + 1)))))
         ELSE PathResolutionError(<<"Invalid index access at: ">> \o remaining)
    ELSE PathResolutionError(<<"Unexpected character at: ">> \o remaining)

tokenize_path(p) ==
    LET remaining == Strip(p)
    IN  IF IdentLen(remaining) = 0
        THEN PathResolutionError(
                 <<"Invalid path: expected identifier at start of '">> \o p \o <<"'">>)
        ELSE TokenizeLoop(Drop(remaining, IdentLen(remaining)),
                 <<IdentSegment(Take(remaining, IdentLen(remaining)))>>)

(***************************************************************************)
(* Writing a segment list back as path text (the re-rendering of the       *)
(* round-trip property): the first segment is the bare variable name, a    *)
(* later field is .name, an index is [n] and a deref is .* .               *)
(***************************************************************************)
RenderSegment(seg, isFirst) ==
    CASE seg.kind = "IdentSegment" -> (IF isFirst THEN <<>> ELSE <<".">>) \o seg.name
      [] seg.kind = "IndexSegment" -> <<"[">> \o IntToStr(seg.index) \o <<"]">>
      [] seg.kind = "DerefSegment" -> <<".", "*">>

RECURSIVE RenderFrom(_, _)
RenderFrom(segments, isFirst) ==
    IF segments = <<>> THEN <<>>
    ELSE RenderSegment(Head(segments), isFirst) \o RenderFrom(Tail(segments), FALSE)

render_segments(segments) == RenderFrom(segments, TRUE)


(***************************************************************************)
(* Paths handed to the tokenizer.  A written path is the text of a token   *)
(* list: a leading identifier followed by at most MaxTokens further        *)
(* tokens.  A raw path is any text of at most MaxPathLen lexemes over      *)
(* PathAlphabet, well formed or not.                                       *)
(***************************************************************************)
MaxTokens == 3
MaxPathLen == 4

PathNames == { <<"a">>, <<"users", "_", "0">> }
PathDigits == { <<"0">>, <<"1", "0">>, <<"0", "7">> }

NameToken(name) == [tok |-> "name", text |-> name]
TupleToken(digits) == [tok |-> "tuple", text |-> digits]
IndexToken(digits) == [tok |-> "index", text |-> digits]
DerefToken == [tok |-> "deref", text |-> <<"*">>]

LaterTokens ==
    {NameToken(n) : n \in PathNames} \cup {TupleToken(d) : d \in PathDigits}
    \cup {IndexToken(d) : d \in PathDigits} \cup {DerefToken}

TokenLists ==
    { <<NameToken(n)>> \o rest :
        n \in PathNames,
        rest \in UNION { [1..k -> LaterTokens] : k \in 0..MaxTokens } }

TokenText(token, isFirst) ==
    CASE token.tok = "name" -> (IF isFirst THEN <<>> ELSE <<".">>) \o token.text
      [] token.tok = "tuple" -> <<".">> \o token.text
      [] token.tok = "index" -> <<"[">> \o token.text \o <<"]">>
      [] token.tok = "deref" -> <<".", "*">>

RECURSIVE WriteFrom(_, _)
WriteFrom(tokens, isFirst) ==
    IF tokens = <<>> THEN <<>>
    ELSE TokenText(Head(tokens), isFirst) \o WriteFrom(Tail(tokens), FALSE)

WritePath(tokens) == WriteFrom(tokens, TRUE)

PathAlphabet == {"a", "0", "U+0663", ".", "*", "[", "]", " ", "-"}
RawPaths == UNION { [1..k -> PathAlphabet] : k \in 0..MaxPathLen }

InitTokenize ==
    /\ BridgeIdle
    /\ pc = "start"
    /\ \/ path_tokens \in TokenLists /\ path = WritePath(path_tokens)
       \/ path_tokens = <<>> /\ path \in RawPaths
    /\ tokenized = Idle /\ rendered = Idle /\ tokenized2 = Idle
    /\ NormalizeIdle /\ dispatched = Idle
    /\ frame = Idle /\ ResolveIdle /\ SerializeIdle

Tokenize ==
    /\ pc = "start"
    /\ tokenized' = tokenize_path(path)
    /\ pc' = "tokenized"
    /\ UNCHANGED <<path, path_tokens, rendered, tokenized2, normVars, dispatched,
                   frame, bridgeVars, resolveVars, serializeVars>>

Render ==
    /\ pc = "tokenized" /\ tokenized.ok
    /\ rendered' = render_segments(tokenized.segments)
    /\ pc' = "rendered"
    /\ UNCHANGED <<path, path_tokens, tokenized, tokenized2, normVars, dispatched,
                   frame, bridgeVars, resolveVars, serializeVars>>

Retokenize ==
    /\ pc = "rendered"
    /\ tokenized2' = tokenize_path(rendered)
    /\ pc' = "retokenized"
    /\ UNCHANGED <<path, path_tokens, tokenized, rendered, normVars, dispatched,
                   frame, bridgeVars, resolveVars, serializeVars>>

NextTokenize == Tokenize \/ Render \/ Retokenize

SpecTokenize == InitTokenize /\ [][NextTokenize]_vars

(***************************************************************************)
(* The path grammar, stated as a recogniser of whole texts: an identifier  *)
(* followed by any number of .name, .digits, .* and [digits] tokens.       *)
(* digits is the set of characters read as a digit.                        *)
(***************************************************************************)
IsIdentifier(w) ==
    /\ w # <<>> /\ IsIdentStart(w[1])
    /\ \A i \in 1..Len(w) : IsIdentChar(w[i])

IsDigits(w, digits) == w # <<>> /\ \A i \in 1..Len(w) : w[i] \in digits

IsLaterToken(w, digits) ==
    \/ /\ Len(w) >= 2 /\ w[1] = "."
       /\ \/ IsIdentifier(Tail(w))
          \/ IsDigits(Tail(w), digits)
          \/ Tail(w) = <<"*">>
    \/ /\ Len(w) >= 3 /\ w[1] = "[" /\ w[Len(w)] = "]"
       /\ IsDigits(SubSeq(w, 2, Len(w) - 1), digits)

RECURSIVE IsTokenRun(_, _)
IsTokenRun(s, digits) ==
    \/ s = <<>>
    \/ \E n \in 1..Len(s) :
          IsLaterToken(Take(s, n), digits) /\ IsTokenRun(Drop(s, n), digits)

MatchesGrammar(s, digits) ==
    \E n \in 1..Len(s) : IsIdentifier(Take(s, n)) /\ IsTokenRun(Drop(s, n), digits)

\* what is left of s after its longest well-formed prefix
Remainder(s, digits) ==
    LET good == {n \in 0..Len(s) : n = 0 \/ MatchesGrammar(Take(s, n), digits)}
        longest == CHOOSE n \in good : \A m \in good : m <= n
    IN  Drop(s, longest)

\* the segment a token stands for
SegmentOf(token) ==
    CASE token.tok = "name" -> [kind |-> "IdentSegment", name |-> token.text]
      [] token.tok = "tuple" -> [kind |-> "IdentSegment", name |-> <<"__">> \o token.text]
      [] token.tok = "index" -> [kind |-> "IndexSegment", index |-> ParseInt(token.text)]
      [] token.tok = "deref" -> [kind |-> "DerefSegment"]

Written == path_tokens # <<>>

TokenizeRoundTrip ==
    (pc = "retokenized" /\ Written) =>
        /\ tokenized.ok /\ tokenized2.ok
        /\ tokenized2.segments = tokenized.segments

TokenizeRoundTripWitness ==
    /\ pc = "retokenized" /\ Written
    /\ path = <<"a", ".", "0", "7", "[", "0", "7", "]">>
    /\ rendered = <<"a", ".", "__", "0", "7", "[", "7", "]">>
    /\ tokenized2 = tokenized

(***************************************************************************)
(* C9 as stated: every input that does not match the path grammar is       *)
(* rejected with a PathResolutionError whose message contains the          *)
(* unconsumed remainder, and no segment list is returned.                  *)
(***************************************************************************)
RejectsNonGrammar ==
    (pc = "tokenized" /\ ~MatchesGrammar(path, AsciiDigits)) =>
        /\ ~tokenized.ok
        /\ tokenized.error = "PathResolutionError"
        /\ "segments" \notin DOMAIN tokenized
        /\ Contains(tokenized.message, Remainder(path, AsciiDigits))

(***************************************************************************)
(* C9 as the code has it: surrounding whitespace is stripped first and a   *)
(* digit is whatever \d matches; every input whose stripped text does not  *)
(* match that grammar is rejected with a PathResolutionError whose message *)
(* contains the unconsumed remainder of the stripped text, and no segment  *)
(* list is returned.                                                       *)
(***************************************************************************)
RejectsNonGrammarStripped ==
    (pc = "tokenized" /\ ~MatchesGrammar(Strip(path), DigitLexemes)) =>
        /\ ~tokenized.ok
        /\ tokenized.error = "PathResolutionError"
        /\ "segments" \notin DOMAIN tokenized
        /\ Contains(tokenized.message, Remainder(Strip(path), DigitLexemes))

RejectsNonGrammarStrippedWitness ==
    /\ pc = "tokenized"
    /\ path = <<"a", ".", "0", "a">>
    /\ ~MatchesGrammar(Strip(path), DigitLexemes)
    /\ tokenized = PathResolutionError(<<"Unexpected character at: ", "a">>)


(***************************************************************************)
(* Dispatch on the type name: value_to_json (serializer.py) and            *)
(* format_value (providers/__init__.py).                                   *)
(***************************************************************************)
PRIMITIVE_TYPES ==
    { <<"i8">>, <<"i16">>, <<"i32">>, <<"i64">>, <<"i128">>, <<"isize">>,
      <<"u8">>, <<"u16">>, <<"u32">>, <<"u64">>, <<"u128">>, <<"usize">>,
      <<"f32">>, <<"f64">>, <<"bool">>, <<"char">>,
      <<"signed", " ", "char">>, <<"unsigned", " ", "char">>,
      <<"short">>, <<"unsigned", " ", "short">>, <<"int">>, <<"unsigned", " ", "int">>,
      <<"long">>, <<"unsigned", " ", "long">>, <<"long", " ", "long">>,
      <<"unsigned", " ", "long", " ", "long">>, <<"float">>, <<"double">>, <<"_Bool">> }

\* str.lstrip('&')
RECURSIVE LStripAmp(_)
LStripAmp(s) == IF s # <<>> /\ Head(s) = "&" THEN LStripAmp(Tail(s)) ELSE s

is_primitive(type_name) == Strip(LStripAmp(type_name)) \in PRIMITIVE_TYPES

\* the word lexemes whose text ends in the given name: 'Box<' in 'RcBox<T>'
WordsEndingIn(name) == IF name = "Box" THEN {"Box", "RcBox"} ELSE {name}

\* name + '<' in type_name
HasGeneric(type_name, name) ==
    \E i \in 1..(Len(type_name) - 1) :
        type_name[i] \in WordsEndingIn(name) /\ type_name[i + 1] = "<"

\* is_ptr_type of value_to_json
is_ptr_type(type_name) ==
    \/ HasGeneric(type_name, "Arc") \/ HasGeneric(type_name, "Rc")
    \/ HasGeneric(type_name, "Box")
    \/ Contains(type_name, <<"*", "const">>) \/ Contains(type_name, <<"*", "mut">>)

\* the chain of tests of value_to_json, by the name of the function it calls
serializer_branch(type_name) ==
    IF is_primitive(type_name) THEN "_serialize_primitive"
    ELSE IF Contains(type_name, <<"String">>) /\ Contains(type_name, StdString)
    THEN "_serialize_string"
    ELSE IF type_name = <<"&", "str">> THEN "_serialize_str_ref"
    ELSE IF HasGeneric(type_name, "Vec") THEN "_serialize_vec"
    ELSE IF HasGeneric(type_name, "Option") THEN "_serialize_option"
    ELSE IF HasGeneric(type_name, "Result") THEN "_serialize_result"
    ELSE IF \/ HasGeneric(type_name, "Box") \/ HasGeneric(type_name, "Arc")
            \/ HasGeneric(type_name, "Rc")
    THEN "_serialize_smart_pointer"
    ELSE IF StartsWith(type_name, <<"(">>) /\ EndsWith(type_name, <<")">>)
    THEN "_serialize_tuple"
    ELSE IF \/ Contains(type_name, <<"[">>) /\ Contains(type_name, <<"]">>)
            \/ StartsWith(type_name, <<"[">>)
    THEN "_serialize_fixed_array"
    ELSE "_serialize_struct"

\* the kind _serialize_smart_pointer writes
PointerKindPtr(type_name) == "ptr"
pointer_kind(type_name) ==
    IF HasGeneric(type_name, "Arc") THEN "arc"
    ELSE IF HasGeneric(type_name, "Rc") THEN "rc"
    ELSE IF HasGeneric(type_name, "Box") THEN "box"
    ELSE "ptr"

\* _FORMATTERS in insertion order; a pattern is ^name$, ^name<.+>$ or ^name<.+>
HashbrownMap == <<"hashbrown", "::", "map", "::", "HashMap">>

_FORMATTERS ==
    << [name |-> StdString,       generic |-> FALSE, toEnd |-> TRUE,  formatter |-> "_format_string"],
       [name |-> <<"&", "str">>,  generic |-> FALSE, toEnd |-> TRUE,  formatter |-> "_format_string"],
       [name |-> StdVec,          generic |-> TRUE,  toEnd |-> TRUE,  formatter |-> "_format_vec"],
       [name |-> StdOption,       generic |-> TRUE,  toEnd |-> FALSE, formatter |-> "_format_option"],
       [name |-> StdResult,       generic |-> TRUE,  toEnd |-> FALSE, formatter |-> "_format_result"],
       [name |-> StdHashMap,      generic |-> TRUE,  toEnd |-> FALSE, formatter |-> "_format_hashmap"],
       [name |-> HashbrownMap,    generic |-> TRUE,  toEnd |-> FALSE, formatter |-> "_format_hashmap"],
       [name |-> StdArc,          generic |-> TRUE,  toEnd |-> TRUE,  formatter |-> "_format_arc"],
       [name |-> StdRc,           generic |-> TRUE,  toEnd |-> TRUE,  formatter |-> "_format_rc"],
       [name |-> StdBox,          generic |-> TRUE,  toEnd |-> TRUE,  formatter |-> "_format_box"] >>

\* re.match(pattern, type_name)
FormatterMatches(rule, type_name) ==
    IF ~rule.generic THEN type_name = rule.name
    ELSE /\ StartsWith(type_name, rule.name \o <<"<">>)
         /\ IF rule.toEnd
            THEN Len(type_name) >= Len(rule.name) + 3 /\ type_name[Len(type_name)] = ">"
            ELSE \E j \in (Len(rule.name) + 3)..Len(type_name) : type_name[j] = ">"

\* the formatter format_value calls first
selected_formatter(type_name) ==
    LET hits == {i \in 1..Len(_FORMATTERS) : FormatterMatches(_FORMATTERS[i], type_name)}
    IN  IF hits = {} THEN "_format_default"
        ELSE _FORMATTERS[CHOOSE i \in hits : \A j \in hits : i <= j].formatter

(***************************************************************************)
(* Type names of values as the debugger reports them, nested up to         *)
(* DispatchDepth.                                                          *)
(***************************************************************************)
DispatchDepth == 2

ValueLeafTypes ==
    { <<"i32">>, <<"int">>, <<"f64">>, StdString, <<"&", "str">>, UserType,
      <<"(", "i32", ",", " ">> \o StdString \o <<")">>,
      <<"[", "i32", ";", " ", "5", "]">>, <<"int", "[", "5", "]">> }

ValueWrappers(t) ==
    { StdVec \o <<"<">> \o t \o <<",", " ">> \o AllocGlobal \o <<">">>,
      StdOption \o <<"<">> \o t \o <<">">>,
      StdResult \o <<"<">> \o t \o <<",", " ">> \o StdString \o <<">">>,
      StdHashMap \o <<"<">> \o StdString \o <<",", " ">> \o t
          \o <<",", " ">> \o HashRandomState \o <<">">>,
      StdBox \o <<"<">> \o t \o <<",", " ">> \o AllocGlobal \o <<">">>,
      StdArc \o <<"<">> \o t \o <<",", " ">> \o AllocGlobal \o <<">">>,
      StdRc \o <<"<">> \o t \o <<",", " ">> \o AllocGlobal \o <<">">>,
      <<"rust_sample", "::", "Wrapper", "<">> \o t \o <<">">> }

RECURSIVE ValueTypesUpTo(_)
ValueTypesUpTo(d) ==
    IF d = 0 THEN ValueLeafTypes
    ELSE ValueTypesUpTo(d - 1) \cup UNION {ValueWrappers(t) : t \in ValueTypesUpTo(d - 1)}

ValueTypes == ValueTypesUpTo(DispatchDepth)

InitDispatch ==
    /\ BridgeIdle
    /\ pc = "start"
    /\ lldb_type \in ValueTypes
    /\ canon = Idle /\ canon2 = Idle /\ dispatched = Idle
    /\ TokenizeIdle
    /\ frame = Idle /\ ResolveIdle /\ SerializeIdle

Dispatch ==
    /\ pc = "start"
    /\ dispatched' = [ serializer |-> serializer_branch(lldb_type),
                       kind |-> pointer_kind(lldb_type),
                       formatter |-> selected_formatter(lldb_type) ]
    /\ pc' = "dispatched"
    /\ UNCHANGED <<normVars, pathVars, frame, bridgeVars, resolveVars, serializeVars>>

NextDispatch == Dispatch

SpecDispatch == InitDispatch /\ [][NextDispatch]_vars

\* the family of the outermost type constructor of a type name
FamilyNames == {"Option", "Result", "HashMap", "Box", "Arc", "Rc", "Vec", "String"}

OuterFamily(type_name) ==
    IF type_name = StdString THEN "String"
    ELSE IF /\ Contains(type_name, <<"<">>) /\ type_name[Len(type_name)] = ">"
            /\ FirstLt(type_name) > 1
            /\ type_name[FirstLt(type_name) - 1] \in FamilyNames
         THEN type_name[FirstLt(type_name) - 1]
         ELSE "none"

SerializerFamily(d) ==
    CASE d.serializer = "_serialize_string" -> "String"
      [] d.serializer = "_serialize_vec" -> "Vec"
      [] d.serializer = "_serialize_option" -> "Option"
      [] d.serializer = "_serialize_result" -> "Result"
      [] d.serializer = "_serialize_smart_pointer" /\ d.kind = "box" -> "Box"
      [] d.serializer = "_serialize_smart_pointer" /\ d.kind = "arc" -> "Arc"
      [] d.serializer = "_serialize_smart_pointer" /\ d.kind = "rc" -> "Rc"
      [] OTHER -> "none"

FormatterFamily(d) ==
    CASE d.formatter = "_format_string" -> "String"
      [] d.formatter = "_format_vec" -> "Vec"
      [] d.formatter = "_format_option" -> "Option"
      [] d.formatter = "_format_result" -> "Result"
      [] d.formatter = "_format_hashmap" -> "HashMap"
      [] d.formatter = "_format_box" -> "Box"
      [] d.formatter = "_format_arc" -> "Arc"
      [] d.formatter = "_format_rc" -> "Rc"
      [] OTHER -> "none"

(***************************************************************************)
(* C3: value_to_json selects its branch by the type family format_value    *)
(* selects, the family of the outermost type constructor: a value whose    *)
(* outer type is Option, Result, HashMap, Box, Arc, Rc, Vec or String is   *)
(* serialised by that family's branch whatever its generic parameters are  *)
(* (Option<Vec<T>> as an option, Vec<String> as a vector, Box<Arc<T>> with *)
(* kind box).                                                              *)
(***************************************************************************)
DispatchMirrorsFormatter ==
    (pc = "dispatched" /\ OuterFamily(lldb_type) \in FamilyNames) =>
        /\ FormatterFamily(dispatched) = OuterFamily(lldb_type)
        /\ SerializerFamily(dispatched) = OuterFamily(lldb_type)


(***************************************************************************)
(* The debugger's value interface (lldb.SBValue, SBType, SBFrame) as the   *)
(* code uses it.  A value is a record; a frame is its variables together   *)
(* with the debuggee memory, a function from addresses to the values that  *)
(* live there.                                                             *)
(***************************************************************************)
\* Python's None where a str is expected
None == <<"<None>">>

NoType == [valid |-> FALSE, size |-> 0]
SBType(size) == [valid |-> TRUE, size |-> size]

Invalid ==
    [ valid |-> FALSE, name |-> None, type |-> <<>>, addr |-> 0, val |-> None,
      summary |-> None, uns |-> 0, kids |-> <<>>, pointee |-> 0, elem |-> NoType,
      synthetic |-> FALSE ]

\* a value with children, and a scalar with its text and its unsigned reading
SBValue(name, type, addr, kids) ==
    [ valid |-> TRUE, name |-> name, type |-> type, addr |-> addr, val |-> None,
      summary |-> None, uns |-> 0, kids |-> kids, pointee |-> 0, elem |-> NoType,
      synthetic |-> FALSE ]
Scalar(name, type, addr, text, n) ==
    [SBValue(name, type, addr, <<>>) EXCEPT !.val = text, !.uns = n]

GetChildAtIndex(v, i) == IF i + 1 \in 1..Len(v.kids) THEN v.kids[i + 1] ELSE Invalid

\* GetChildAtIndex(i, lldb.eNoDynamicValues, True): past the declared children
\* the host may make up a synthetic array member
GetChildAtIndexSynthetic(v, i) ==
    IF i + 1 \in 1..Len(v.kids) THEN v.kids[i + 1]
    ELSE IF v.valid /\ v.synthetic /\ v.kids # <<>>
    THEN Scalar(<<"[">> \o IntToStr(i) \o <<"]">>, v.kids[1].type,
                v.addr + v.elem.size * i, None, 0)
    ELSE Invalid

GetChildMemberWithName(v, name) ==
    LET hits == {i \in 1..Len(v.kids) : v.kids[i].name = name}
    IN  IF hits = {} THEN Invalid ELSE v.kids[CHOOSE i \in hits : \A j \in hits : i <= j]

Dereference(mem, v) == IF v.valid /\ v.pointee \in DOMAIN mem THEN mem[v.pointee] ELSE Invalid

\* memory outside the known allocations reads as a value without content
CreateValueFromAddress(mem, name, addr, type) ==
    IF ~type.valid THEN Invalid
    ELSE IF addr \in DOMAIN mem THEN [mem[addr] EXCEPT !.name = name]
    ELSE SBValue(name, <<>>, addr, <<>>)

FindVariable(f, name) ==
    LET hits == {i \in 1..Len(f.vars) : f.vars[i].name = name}
    IN  IF hits = {} THEN Invalid ELSE f.vars[CHOOSE i \in hits : TRUE]

(***************************************************************************)
(* path_resolver.py: resolution of one segment.                            *)
(***************************************************************************)
Resolved(v) == [ok |-> TRUE, value |-> v]

smart_pointer_patterns ==
    { StdBox, StdArc, StdRc, <<"core", "::", "cell", "::", "Ref">>,
      <<"core", "::", "cell", "::", "RefMut">> }

\* a test that takes every type for a pointer wrapper
IsAnyType(type_name) == TRUE

_is_smart_pointer_type(type_name) ==
    \E q \in smart_pointer_patterns : StartsWith(type_name, q \o <<"<">>)

\* the value at the end of the field names, or found = FALSE for None
RECURSIVE _navigate_path(_, _)
_navigate_path(v, names) ==
    IF names = <<>> THEN [found |-> TRUE, value |-> v]
    ELSE IF ~v.valid THEN [found |-> FALSE, value |-> Invalid]
    ELSE IF ~GetChildMemberWithName(v, Head(names)).valid
    THEN [found |-> FALSE, value |-> Invalid]
    ELSE _navigate_path(GetChildMemberWithName(v, Head(names)), Tail(names))

\* the patterns with the oldest layout first
PointerPatternsOldestFirst ==
    << <<"pointer">>, <<"ptr", "pointer">>, <<"ptr", "pointer", "pointer">>,
       <<"inner", "ptr", "pointer", "pointer">> >>

POINTER_PATTERNS ==
    << <<"inner", "ptr", "pointer", "pointer">>, <<"ptr", "pointer", "pointer">>,
       <<"ptr", "pointer">>, <<"pointer">> >>

FieldName(word) == <<word>>
FieldNames(pattern) == [i \in 1..Len(pattern) |-> FieldName(pattern[i])]

_find_pointer_in_buf(buf) ==
    LET hits == { i \in 1..Len(POINTER_PATTERNS) :
                    LET r == _navigate_path(buf, FieldNames(POINTER_PATTERNS[i]))
                    IN  r.found /\ r.value.valid }
    IN  IF hits = {} THEN [found |-> FALSE, value |-> Invalid]
        ELSE _navigate_path(buf,
                 FieldNames(POINTER_PATTERNS[CHOOSE i \in hits : \A j \in hits : i <= j]))

(***************************************************************************)
(* providers/__init__.py has its own copy of the lookup of the data        *)
(* pointer; the formatters and, through an import, the serialisers use it. *)
(***************************************************************************)
RECURSIVE providers_navigate_path(_, _)
providers_navigate_path(v, names) ==
    IF names = <<>> THEN [found |-> TRUE, value |-> v]
    ELSE IF ~v.valid THEN [found |-> FALSE, value |-> Invalid]
    ELSE IF ~GetChildMemberWithName(v, Head(names)).valid
    THEN [found |-> FALSE, value |-> Invalid]
    ELSE providers_navigate_path(GetChildMemberWithName(v, Head(names)), Tail(names))

PROVIDERS_POINTER_PATTERNS ==
    << <<"inner", "ptr", "pointer", "pointer">>, <<"ptr", "pointer", "pointer">>,
       <<"ptr", "pointer">>, <<"pointer">> >>

\* for pattern in patterns: the first result that is there and valid
RECURSIVE FirstNavigable(_, _)
FirstNavigable(buf, patterns) ==
    IF patterns = <<>> THEN [found |-> FALSE, value |-> Invalid]
    ELSE IF /\ providers_navigate_path(buf, FieldNames(Head(patterns))).found
            /\ providers_navigate_path(buf, FieldNames(Head(patterns))).value.valid
    THEN providers_navigate_path(buf, FieldNames(Head(patterns)))
    ELSE FirstNavigable(buf, Tail(patterns))

providers_find_pointer_in_buf(buf) == FirstNavigable(buf, PROVIDERS_POINTER_PATTERNS)

OutOfBounds(index, length) ==
    PathResolutionError(<<"Index [">> \o IntToStr(index) \o <<"] out of bounds (len=">>
                        \o IntToStr(length) \o <<")">>)

CannotAccessElement(index) ==
    PathResolutionError(<<"Cannot access element at index [">> \o IntToStr(index) \o <<"]">>)

_resolve_vec_index(mem, v, index) ==
    LET len_child == GetChildMemberWithName(v, <<"len">>)
        length == len_child.uns
        elem_type == v.elem
        buf == GetChildMemberWithName(v, <<"buf">>)
        ptr == _find_pointer_in_buf(buf)
        ptr_addr == ptr.value.uns
        elem == CreateValueFromAddress(mem, <<"[">> \o IntToStr(index) \o <<"]">>,
                                       ptr_addr + index * elem_type.size, elem_type)
    IN  IF ~len_child.valid THEN PathResolutionError(<<"Cannot access Vec length">>)
        ELSE IF index < 0 \/ index >= length THEN OutOfBounds(index, length)
        ELSE IF ~elem_type.valid
        THEN PathResolutionError(<<"Cannot determine Vec element type">>)
        ELSE IF ~buf.valid THEN PathResolutionError(<<"Cannot access Vec buffer">>)
        ELSE IF ~ptr.found \/ ~ptr.value.valid
        THEN PathResolutionError(<<"Cannot access Vec data pointer">>)
        ELSE IF ptr_addr = 0 THEN PathResolutionError(<<"Vec data pointer is null">>)
        ELSE IF ~elem.valid THEN CannotAccessElement(index)
        ELSE Resolved(elem)

_resolve_array_index(v, index) ==
    LET num_children == Len(v.kids)
    IN  IF index < 0 \/ index >= num_children THEN OutOfBounds(index, num_children)
        ELSE IF ~GetChildAtIndex(v, index).valid THEN CannotAccessElement(index)
        ELSE Resolved(GetChildAtIndex(v, index))

\* child.IsValid() and child.GetName() and not child.GetName().startswith('buf')
UsableChild(child) ==
    /\ child.valid
    /\ child.name # None /\ child.name # <<>>
    /\ ~StartsWith(child.name, <<"buf">>)

_resolve_segment(mem, v, segment) ==
    CASE segment.kind = "IdentSegment" ->
           LET child == GetChildMemberWithName(v, segment.name)
               deref == Dereference(mem, v)
           IN  IF child.valid THEN Resolved(child)
               ELSE IF /\ _is_smart_pointer_type(v.type)
                       /\ deref.valid
                       /\ GetChildMemberWithName(deref, segment.name).valid
               THEN Resolved(GetChildMemberWithName(deref, segment.name))
               ELSE PathResolutionError(<<"Field '">> \o segment.name
                        \o <<"' not found in type '">> \o v.type \o <<"'">>)
      [] segment.kind = "IndexSegment" ->
           IF Contains(v.type, StdVec \o <<"<">>)
           THEN _resolve_vec_index(mem, v, segment.index)
           ELSE IF StartsWith(v.type, <<"[">>) /\ Contains(v.type, <<";">>)
           THEN _resolve_array_index(v, segment.index)
           ELSE IF UsableChild(GetChildAtIndexSynthetic(v, segment.index))
           THEN Resolved(GetChildAtIndexSynthetic(v, segment.index))
           ELSE IF UsableChild(GetChildAtIndex(v, segment.index))
           THEN Resolved(GetChildAtIndex(v, segment.index))
           ELSE PathResolutionError(<<"Index [">> \o IntToStr(segment.index)
                    \o <<"] out of bounds or not accessible">>)
      [] segment.kind = "DerefSegment" ->
           IF Dereference(mem, v).valid THEN Resolved(Dereference(mem, v))
           ELSE IF _is_smart_pointer_type(v.type) /\ GetChildAtIndex(v, 0).valid
           THEN Resolved(GetChildAtIndex(v, 0))
           ELSE PathResolutionError(<<"Cannot dereference type '">> \o v.type \o <<"'">>)


(***************************************************************************)
(* Stopped frames of the sample program the tests debug: users is a Vec of *)
(* User, arr a fixed array, boxed_user a Box, pair a tuple, user a struct. *)
(* A frame is described by the length of users, the layout of its buffer   *)
(* (1..4: the layouts of POINTER_PATTERNS, 0: a layout the code does not   *)
(* know), whether the element type can be looked up, whether the data      *)
(* pointer is null, how the host spells the array type, and whether the    *)
(* host makes up synthetic array members.                                  *)
(***************************************************************************)
MaxLen == 2
ArrayLen == 3
MaxIndex == 3
MaxSegments == 2

UsersAddr == 4096
UserSize == 32
BoxedAddr == 8192

VecOfUser == StdVec \o <<"<">> \o UserType \o <<",", " ">> \o AllocGlobal \o <<">">>
BoxOfUser == StdBox \o <<"<">> \o UserType \o <<",", " ">> \o AllocGlobal \o <<">">>
RawVecType == <<"alloc", "::", "raw_vec", "::", "RawVec", "<">> \o UserType \o <<">">>
PointerToUser == <<"*", "const", " ">> \o UserType
PairType == <<"(", "i32", ",", " ">> \o StdString \o <<")">>

StringValue(name, addr, text) ==
    [SBValue(name, StdString, addr, <<>>) EXCEPT !.summary = <<"\"">> \o text \o <<"\"">>]

User(name, addr, k) ==
    SBValue(name, UserType, addr,
        << StringValue(<<"name">>, addr, <<"user", IntToStr(k)[1]>>),
           Scalar(<<"age">>, <<"u32">>, addr + 24, IntToStr(30 + k), 30 + k) >>)

\* the chain of wrappers around the data pointer, innermost last
RECURSIVE Wrapped(_, _, _)
Wrapped(names, addr, inner) ==
    IF names = <<>> THEN inner
    ELSE SBValue(FieldName(Head(names)), RawVecType, addr,
                 << IF Len(names) = 1 THEN inner ELSE Wrapped(Tail(names), addr, inner) >>)

RawBuffer(layout, addr, ptr_addr) ==
    IF layout = 0
    THEN SBValue(<<"buf">>, RawVecType, addr,
             << Scalar(<<"raw">>, PointerToUser, addr, IntToStr(ptr_addr), ptr_addr) >>)
    ELSE LET names == POINTER_PATTERNS[layout]
             data == Scalar(FieldName(names[Len(names)]), PointerToUser, addr,
                            IntToStr(ptr_addr), ptr_addr)
         IN  SBValue(<<"buf">>, RawVecType, addr,
                 << IF Len(names) = 1 THEN data
                    ELSE Wrapped(Take(names, Len(names) - 1), addr, data) >>)

UsersVec(w) ==
    [ SBValue(<<"users">>, VecOfUser, 100,
          << RawBuffer(w.layout, 100, IF w.nullPtr THEN 0 ELSE UsersAddr),
             Scalar(<<"len">>, <<"usize">>, 116, IntToStr(w.len), w.len) >>)
      EXCEPT !.elem = IF w.elemValid THEN SBType(UserSize) ELSE NoType ]

ArrayType(cstyle) ==
    IF cstyle THEN <<"int", "[">> \o IntToStr(ArrayLen) \o <<"]">>
    ELSE <<"[", "i32", ";", " ">> \o IntToStr(ArrayLen) \o <<"]">>

Arr(w) ==
    [ SBValue(<<"arr">>, ArrayType(w.cstyle), 200,
          [ i \in 1..ArrayLen |->
              Scalar(<<"[">> \o IntToStr(i - 1) \o <<"]">>,
                     IF w.cstyle THEN <<"int">> ELSE <<"i32">>,
                     200 + 4 * (i - 1), IntToStr(10 * i), 10 * i) ])
      EXCEPT !.elem = SBType(4), !.synthetic = w.synthetic ]

BoxedUser ==
    [ SBValue(<<"boxed_user">>, BoxOfUser, 300,
          << [Scalar(<<"__", "0">>, PointerToUser, 300, IntToStr(BoxedAddr), BoxedAddr)
                 EXCEPT !.pointee = BoxedAddr] >>)
      EXCEPT !.pointee = BoxedAddr ]

Pair ==
    SBValue(<<"pair">>, PairType, 400,
        << Scalar(<<"__", "0">>, <<"i32">>, 400, <<"7">>, 7),
           StringValue(<<"__", "1">>, 408, <<"b">>) >>)

SampleFrame(w) ==
    [ valid |-> TRUE,
      vars |-> << UsersVec(w), Arr(w), BoxedUser, Pair, User(<<"user">>, 500, 9) >>,
      heap |-> [ a \in {UsersAddr + UserSize * i : i \in 0..(w.len - 1)} \cup {BoxedAddr} |->
                   IF a = BoxedAddr THEN User(<<"*", "boxed_user">>, a, 8)
                   ELSE User(None, a, (a - UsersAddr) \div UserSize) ] ]

FrameShape(len, layout, elemValid, nullPtr, cstyle, synthetic) ==
    [ len |-> len, layout |-> layout, elemValid |-> elemValid, nullPtr |-> nullPtr,
      cstyle |-> cstyle, synthetic |-> synthetic ]

FrameShapes ==
    UNION { { FrameShape(n, 1, TRUE, FALSE, FALSE, FALSE) }
            \cup { FrameShape(n, layout, TRUE, FALSE, FALSE, FALSE) : layout \in {0, 2, 3, 4} }
            \cup { FrameShape(n, 1, FALSE, FALSE, FALSE, FALSE),
                   FrameShape(n, 1, TRUE, TRUE, FALSE, FALSE) }
            \cup { FrameShape(n, 1, TRUE, FALSE, TRUE, synthetic) : synthetic \in BOOLEAN }
          : n \in 0..MaxLen }

Frames == {SampleFrame(w) : w \in FrameShapes}

\* the paths asked of the resolver: a name and up to MaxSegments accesses
ResolveNames == { <<"users">>, <<"arr">>, <<"boxed_user">>, <<"pair">>, <<"user">>, <<"missing">> }

ResolveTokens ==
    { NameToken(<<"name">>), NameToken(<<"age">>), TupleToken(<<"0">>), DerefToken }
    \cup { IndexToken(IntToStr(i)) : i \in 0..MaxIndex }

ResolveTokenLists ==
    { <<NameToken(n)>> \o rest :
        n \in ResolveNames,
        rest \in UNION { [1..k -> ResolveTokens] : k \in 0..MaxSegments } }

MalformedPaths == { <<"users", "[">>, <<"users", ".", ".">>, <<"0", "users">> }

(***************************************************************************)
(* resolve_path, one action per step of its loop.                          *)
(***************************************************************************)
InitResolve ==
    /\ BridgeIdle
    /\ pc = "start"
    /\ frame \in Frames
    /\ \/ path_tokens \in ResolveTokenLists /\ path = WritePath(path_tokens)
       \/ path_tokens = <<>> /\ path \in MalformedPaths
    /\ tokenized = Idle /\ rendered = Idle /\ tokenized2 = Idle
    /\ todo = <<>> /\ position = 1 /\ reached = Invalid /\ trail = <<>>
    /\ resolved = Idle
    /\ NormalizeIdle /\ dispatched = Idle /\ SerializeIdle

\* the segment the loop takes after segment i, and a loop that skips one
AfterSegmentSkipping(i) == i + 2
AfterSegment(i) == i + 1

\* tokenize_path and frame.FindVariable
ResolveStart ==
    /\ pc = "start"
    /\ LET parsed == tokenize_path(path)
           found == FindVariable(frame, parsed.segments[1].name)
       IN  IF ~parsed.ok
           THEN /\ resolved' = parsed
                /\ pc' = "raised"
                /\ UNCHANGED <<todo, position, reached, trail>>
           ELSE IF parsed.segments = <<>>
           THEN /\ resolved' = PathResolutionError(<<"Empty path">>)
                /\ pc' = "raised"
                /\ UNCHANGED <<todo, position, reached, trail>>
           ELSE IF parsed.segments[1].kind # "IdentSegment"
           THEN /\ resolved' = PathResolutionError(<<"Path must start with a variable name">>)
                /\ pc' = "raised"
                /\ UNCHANGED <<todo, position, reached, trail>>
           ELSE IF ~found.valid
           THEN /\ resolved' = PathResolutionError(<<"Variable '">> \o parsed.segments[1].name
                                    \o <<"' not found in current scope">>)
                /\ todo' = parsed.segments
                /\ pc' = "raised"
                /\ UNCHANGED <<position, reached, trail>>
           ELSE /\ todo' = parsed.segments
                /\ reached' = found
                /\ trail' = <<found>>
                /\ position' = AfterSegment(1)
                /\ pc' = "resolving"
                /\ UNCHANGED resolved
    /\ UNCHANGED <<normVars, dispatched, pathVars, frame, bridgeVars, serializeVars>>

\* one iteration of  for segment in segments[1:]
ResolveNext ==
    /\ pc = "resolving"
    /\ position <= Len(todo)
    /\ LET step == _resolve_segment(frame.heap, reached, todo[position])
       IN  IF step.ok
           THEN /\ reached' = step.value
                /\ trail' = Append(trail, step.value)
                /\ position' = AfterSegment(position)
                /\ UNCHANGED <<pc, resolved>>
           ELSE /\ resolved' = step
                /\ pc' = "raised"
                /\ UNCHANGED <<position, reached, trail>>
    /\ UNCHANGED <<todo, normVars, dispatched, pathVars, frame, bridgeVars, serializeVars>>

\* return value
ResolveReturn ==
    /\ pc = "resolving"
    /\ position > Len(todo)
    /\ resolved' = Resolved(reached)
    /\ pc' = "returned"
    /\ UNCHANGED <<todo, position, reached, trail, normVars, dispatched, pathVars, frame, bridgeVars,
                   serializeVars>>

NextResolve == ResolveStart \/ ResolveNext \/ ResolveReturn

SpecResolve == InitResolve /\ [][NextResolve]_vars


\* trail is what applying the segments before position, in order, each to
\* the value of the one before it, gives
TrailFollowsSegments ==
    /\ Len(trail) = position - 1
    /\ trail[1] = FindVariable(frame, todo[1].name)
    /\ \A i \in 2..Len(trail) :
          LET step == _resolve_segment(frame.heap, trail[i - 1], todo[i])
          IN  step.ok /\ step.value = trail[i]

(***************************************************************************)
(* C5: resolve_path applies the segments strictly left to right, each to   *)
(* the value the previous one produced; a first segment naming no variable *)
(* in scope fails with a variable-not-found error; at the first later      *)
(* segment that cannot be resolved it raises PathResolutionError, the only *)
(* error kind it raises, applies no later segment and returns no partly    *)
(* resolved value.                                                         *)
(***************************************************************************)
ResolveLeftToRight ==
    /\ pc = "resolving" => TrailFollowsSegments /\ reached = trail[Len(trail)]
    /\ pc = "returned" =>
          /\ TrailFollowsSegments
          /\ Len(trail) = Len(todo)
          /\ resolved = Resolved(trail[Len(todo)])
    /\ pc = "raised" =>
          /\ ~resolved.ok
          /\ resolved.error = "PathResolutionError"
          /\ "value" \notin DOMAIN resolved
          /\ IF todo = <<>> THEN ~tokenize_path(path).ok /\ trail = <<>>
             ELSE IF trail = <<>>
             THEN /\ ~FindVariable(frame, todo[1].name).valid
                  /\ resolved.message = <<"Variable '">> \o todo[1].name
                                          \o <<"' not found in current scope">>
             ELSE /\ TrailFollowsSegments
                  /\ position <= Len(todo)
                  /\ resolved = _resolve_segment(frame.heap, trail[Len(trail)], todo[position])

ResolveLeftToRightWitness ==
    /\ pc = "raised"
    /\ path = <<"user", ".", "0", ".", "name">>
    /\ Len(todo) = 3 /\ position = 2 /\ Len(trail) = 1
    /\ resolved.message =
          <<"Field '", "__", "0", "' not found in type '">> \o UserType \o <<"'">>

\* the index step of a path that indexes the vector or the array directly
IndexStepTaken ==
    /\ pc \in {"resolving", "returned", "raised"}
    /\ Len(todo) >= 2 /\ todo[2].kind = "IndexSegment"
    /\ trail # <<>> /\ trail[1].name \in {<<"users">>, <<"arr">>}
    /\ Len(trail) >= 2 \/ (pc = "raised" /\ position = 2)

IndexBound(container) ==
    IF container.name = <<"users">>
    THEN GetChildMemberWithName(container, <<"len">>).uns
    ELSE Len(container.kids)

ElementAddr(container, i) ==
    IF container.name = <<"users">> THEN UsersAddr + UserSize * i
    ELSE container.addr + 4 * i

\* the message spells the number somewhere other than as the index
NamesBound(message, bound) ==
    \E k \in 2..Len(message) :
        /\ SubSeq(message, k, k + Len(IntToStr(bound)) - 1) = IntToStr(bound)
        /\ message[k - 1] # "Index ["

(***************************************************************************)
(* C6: indexing a vector of length L, or a fixed array with N children,    *)
(* with i resolves to the element at position i exactly when i is below    *)
(* the bound; for any i at or above the bound resolution fails with an     *)
(* index error naming both the index and the bound.                        *)
(***************************************************************************)
IndexResolvesExactlyInBounds ==
    IndexStepTaken =>
        LET container == trail[1]
            i == todo[2].index
        IN  IF i < IndexBound(container)
            THEN Len(trail) >= 2 /\ trail[2].addr = ElementAddr(container, i)
            ELSE /\ pc = "raised" /\ position = 2
                 /\ resolved.error = "PathResolutionError"
                 /\ Contains(resolved.message, <<"Index [">> \o IntToStr(i))
                 /\ NamesBound(resolved.message, IndexBound(container))


(***************************************************************************)
(* serializer.py: JSON values.  A dict is its items in insertion order.    *)
(***************************************************************************)
JNull == [t |-> "null"]
JBool(b) == [t |-> "bool", v |-> b]
JInt(n) == [t |-> "int", v |-> n]
JFloat(x) == [t |-> "float", v |-> x]
JStr(text) == [t |-> "str", v |-> text]
JList(items) == [t |-> "list", v |-> items]
JDict(items) == [t |-> "dict", v |-> items]
Item(key, json) == [key |-> key, json |-> json]

IsDict(json) == json.t = "dict"
HasKey(json, key) == \E i \in 1..Len(json.v) : json.v[i].key = key
GetItem(json, key) == json.v[CHOOSE i \in 1..Len(json.v) : json.v[i].key = key].json

\* result[key] = json
SetItem(items, key, json) ==
    IF \E i \in 1..Len(items) : items[i].key = key
    THEN [i \in 1..Len(items) |-> IF items[i].key = key THEN Item(key, json) ELSE items[i]]
    ELSE Append(items, Item(key, json))

\* what a call gives back: the value it returns or the error it raises
Return(json) == [raised |-> FALSE, json |-> json, error |-> <<>>]
Raise(error) == [raised |-> TRUE, json |-> JNull, error |-> error]

MaxSerializeDepth == 20
MaxVecElements == 100
MaxStructFields == 50
MaxStringBytes == 1024

\* providers FormatOptions: the defaults every caller leaves in place
MaxFormatDepth == 5
TruncateAt == 10
ShowTruncateEnd == 3

HexDigit(n) ==
    <<"0", "1", "2", "3", "4", "5", "6", "7", "8", "9", "a", "b", "c", "d", "e", "f">>[n + 1]

\* f"{n:x}"
RECURSIVE IntToHex(_)
IntToHex(n) == IF n < 16 THEN <<HexDigit(n)>> ELSE IntToHex(n \div 16) \o <<HexDigit(n % 16)>>

CycleMarker(addr) == JDict(<<Item(<<"__cycle__">>, JStr(<<"0x">> \o IntToHex(addr)))>>)
TruncatedMarker == JDict(<<Item(<<"__truncated__">>, JStr(<<"max depth">>))>>)
ErrorMarker(error) == JDict(<<Item(<<"__error__">>, JStr(error))>>)

\* str.strip(c) for a one-character c
RECURSIVE LStripChar(_, _)
LStripChar(text, c) ==
    IF text # <<>> /\ Head(text) = c THEN LStripChar(Tail(text), c) ELSE text
RECURSIVE RStripChar(_, _)
RStripChar(text, c) ==
    IF text # <<>> /\ text[Len(text)] = c THEN RStripChar(Take(text, Len(text) - 1), c)
    ELSE text
StripChar(text, c) == RStripChar(LStripChar(text, c), c)

\* truth of a str: neither None nor empty
Truthy(text) == text # None /\ text # <<>>

(***************************************************************************)
(* int(text, 0) and float(text) on the decimal spellings a debugger        *)
(* prints: an optional sign, digits, and for a float an optional fraction  *)
(* or one of nan and inf.                                                  *)
(***************************************************************************)
Unsigned(text) == IF text # <<>> /\ Head(text) \in {"-", "+"} THEN Tail(text) ELSE text
IsNegative(text) == text # <<>> /\ Head(text) = "-"
AllAsciiDigits(text) == text # <<>> /\ \A i \in 1..Len(text) : text[i] \in AsciiDigits

IsIntLiteral(text) ==
    /\ AllAsciiDigits(Unsigned(text))
    /\ Unsigned(text)[1] # "0" \/ \A i \in 1..Len(Unsigned(text)) : Unsigned(text)[i] = "0"

IntOf(text) == IF IsNegative(text) THEN 0 - ParseInt(Unsigned(text)) ELSE ParseInt(Unsigned(text))

DotAt(text) == CHOOSE i \in 1..Len(text) : text[i] = "."

IsFloatLiteral(text) ==
    LET body == Unsigned(text)
    IN  \/ body \in {<<"nan">>, <<"NaN">>, <<"inf">>, <<"Inf">>}
        \/ AllAsciiDigits(body)
        \/ /\ Contains(body, <<".">>)
           /\ AllAsciiDigits(Take(body, DotAt(body) - 1) \o Drop(body, DotAt(body)))

\* the number float(text) is: sign, whole part and fraction without trailing zeros
FloatOf(text) ==
    LET body == Unsigned(text)
        whole == IF Contains(body, <<".">>) THEN Take(body, DotAt(body) - 1) ELSE body
        frac == IF Contains(body, <<".">>) THEN Drop(body, DotAt(body)) ELSE <<>>
    IN  IF body \in {<<"nan">>, <<"NaN">>} THEN [special |-> "nan"]
        ELSE IF body \in {<<"inf">>, <<"Inf">>}
        THEN [special |-> IF IsNegative(text) THEN "-inf" ELSE "inf"]
        ELSE [ negative |-> IsNegative(text) /\ (ParseInt(whole) # 0 \/ RStripChar(frac, "0") # <<>>),
               whole |-> ParseInt(whole), fraction |-> RStripChar(frac, "0") ]

FloatError(text) == <<"could not convert string to float: '">> \o text \o <<"'">>

\* str.lower() == 'true'
LowerIsTrue(text) == text \in {<<"true">>, <<"True">>, <<"TRUE">>}

_serialize_primitive(v) ==
    IF v.val = None THEN Return(JNull)
    ELSE IF v.type \in {<<"bool">>, <<"_Bool">>} THEN Return(JBool(LowerIsTrue(v.val)))
    ELSE IF v.type = <<"char">> THEN Return(JStr(StripChar(v.val, "'")))
    ELSE IF v.type \in {<<"f32">>, <<"f64">>, <<"float">>, <<"double">>}
    THEN IF IsFloatLiteral(v.val) THEN Return(JFloat(FloatOf(v.val)))
         ELSE Raise(FloatError(v.val))
    ELSE IF IsIntLiteral(v.val) THEN Return(JInt(IntOf(v.val)))
    ELSE IF IsFloatLiteral(v.val) THEN Return(JFloat(FloatOf(v.val)))
    ELSE Return(JStr(v.val))

\* process.ReadMemory(addr, size): the text stored at addr, cut to size
ReadMemory(mem, addr, size) ==
    IF addr \in DOMAIN mem /\ mem[addr].val # None
    THEN [failed |-> FALSE, data |-> Take(mem[addr].val, size)]
    ELSE [failed |-> TRUE, data |-> <<>>]

Min(a, b) == IF a <= b THEN a ELSE b

StringPlaceholder(length) == JStr(<<"<String len=">> \o IntToStr(length) \o <<">">>)

_serialize_string(mem, v) ==
    LET vec == GetChildMemberWithName(v, <<"vec">>)
        len_child == GetChildMemberWithName(vec, <<"len">>)
        length == len_child.uns
        buf == GetChildMemberWithName(vec, <<"buf">>)
        ptr == providers_find_pointer_in_buf(buf)
        read == ReadMemory(mem, ptr.value.uns, Min(length, MaxStringBytes))
    IN  IF Truthy(v.summary) THEN Return(JStr(StripChar(v.summary, "\"")))
        ELSE IF ~vec.valid \/ ~len_child.valid \/ length = 0 THEN Return(JStr(<<>>))
        ELSE IF ~buf.valid THEN Return(StringPlaceholder(length))
        ELSE IF ptr.found /\ ptr.value.valid /\ ptr.value.uns # 0 /\ ~read.failed
        THEN Return(JStr(read.data))
        ELSE Return(StringPlaceholder(length))

\* an access to the debuggee: the data pointer of a buffer looked up, a value
\* constructed at an address (element index n), n bytes of memory read
PointerProbe(buf) == [op |-> "pointer", addr |-> buf.addr, n |-> 0]
CreateProbe(addr, index) == [op |-> "create", addr |-> addr, n |-> index]
ReadProbe(addr, size) == [op |-> "read", addr |-> addr, n |-> size]

\* the accesses _serialize_string makes
StringProbes(mem, v) ==
    LET vec == GetChildMemberWithName(v, <<"vec">>)
        len_child == GetChildMemberWithName(vec, <<"len">>)
        length == len_child.uns
        buf == GetChildMemberWithName(vec, <<"buf">>)
        ptr == providers_find_pointer_in_buf(buf)
    IN  IF Truthy(v.summary) \/ ~vec.valid \/ ~len_child.valid \/ length = 0 \/ ~buf.valid
        THEN <<>>
        ELSE IF ptr.found /\ ptr.value.valid /\ ptr.value.uns # 0
        THEN <<PointerProbe(buf), ReadProbe(ptr.value.uns, Min(length, MaxStringBytes))>>
        ELSE <<PointerProbe(buf)>>

_serialize_str_ref(v) ==
    IF Truthy(v.summary) THEN Return(JStr(StripChar(v.summary, "\"")))
    ELSE Return(JStr(<<"<&str>">>))


(***************************************************************************)
(* serializer.py: value_to_json and the container serialisers, as the      *)
(* activations of a call stack.  An activation is one running call of a    *)
(* container serialiser: the value it was given, its depth, how far its    *)
(* loop or its sequence of attempts has come (stage), and what it has      *)
(* collected.  A serialiser says what its activation does next: call       *)
(* value_to_json on a child, return, or raise.                             *)
(***************************************************************************)
Activation(fn, v, depth) ==
    [ fn |-> fn, v |-> v, depth |-> depth, stage |-> 0, items |-> <<>>, types |-> <<>>,
      failed |-> FALSE, error |-> <<>> ]

Calls(child, act) == [kind |-> "call", child |-> child, act |-> act, probes |-> <<>>]
Returns(json) == [kind |-> "return", result |-> Return(json), probes |-> <<>>]
Raises(error) == [kind |-> "raise", result |-> Raise(error), probes |-> <<>>]
\* the step together with the accesses to the debuggee made on the way to it
Probing(step, accesses) == [step EXCEPT !.probes = accesses]

\* an entry of the call log: one call of value_to_json and how it went on
Call(v, depth, outcome) ==
    [addr |-> v.addr, type |-> v.type, depth |-> depth, outcome |-> outcome]

KindOption(variant, key, json) ==
    JDict(<< Item(<<"__ferrumpy_kind__">>, JStr(<<"option">>)),
             Item(<<"__variant__">>, JStr(variant)), Item(key, json) >>)
KindResult(variant, key, json) ==
    JDict(<< Item(<<"__ferrumpy_kind__">>, JStr(<<"result">>)),
             Item(<<"__variant__">>, JStr(variant)), Item(key, json) >>)
Inner == <<"__inner__">>
Summary == <<"__summary__">>
SummaryOrEmpty(v) == IF Truthy(v.summary) THEN v.summary ELSE <<>>

ElementsPlaceholder(length) == JList(<< JStr(<<"<">> \o IntToStr(length) \o <<" elements>">>) >>)
MoreElements(n) == JStr(<<"... (">> \o IntToStr(n) \o <<" more)">>)
MoreFields(n) == JStr(IntToStr(n) \o <<" more fields">>)

\* the least member of a non-empty set of numbers
Least(S) == CHOOSE i \in S : \A j \in S : i <= j

\* value_to_json without the limit on the recursion depth
ValueToJsonUnlimited(mem, v, seen, depth) ==
    LET tracked == is_ptr_type(v.type) /\ v.addr # 0
        marked == IF tracked THEN seen \cup {v.addr} ELSE seen
        branch == serializer_branch(v.type)
        Leaf(result, seenAfter, outcome) ==
            [ immediate |-> TRUE, result |-> result, visited |-> seenAfter,
              call |-> Call(v, depth, outcome),
              probes |-> IF outcome = "serialize" /\ branch = "_serialize_string"
                         THEN StringProbes(mem, v) ELSE <<>> ]
    IN  IF ~v.valid THEN Leaf(Return(JNull), seen, "invalid")
        ELSE IF tracked /\ v.addr \in seen THEN Leaf(Return(CycleMarker(v.addr)), seen, "cycle")
        ELSE IF branch = "_serialize_primitive"
        THEN Leaf(_serialize_primitive(v), marked, "serialize")
        ELSE IF branch = "_serialize_string"
        THEN Leaf(_serialize_string(mem, v), marked, "serialize")
        ELSE IF branch = "_serialize_str_ref"
        THEN Leaf(_serialize_str_ref(v), marked, "serialize")
        ELSE [ immediate |-> FALSE, act |-> Activation(branch, v, depth), visited |-> marked,
               call |-> Call(v, depth, "serialize"), probes |-> <<>> ]

(***************************************************************************)
(* value_to_json up to the call of a container serialiser: the guards, the *)
(* cycle check, and the branches that return without a further call.       *)
(* seen is the visited set at the call.                                    *)
(***************************************************************************)
value_to_json(mem, v, seen, depth) ==
    LET tracked == is_ptr_type(v.type) /\ v.addr # 0
        marked == IF tracked THEN seen \cup {v.addr} ELSE seen
        branch == serializer_branch(v.type)
        Leaf(result, seenAfter, outcome) ==
            [ immediate |-> TRUE, result |-> result, visited |-> seenAfter,
              call |-> Call(v, depth, outcome),
              probes |-> IF outcome = "serialize" /\ branch = "_serialize_string"
                         THEN StringProbes(mem, v) ELSE <<>> ]
    IN  IF ~v.valid THEN Leaf(Return(JNull), seen, "invalid")
        ELSE IF depth > MaxSerializeDepth THEN Leaf(Return(TruncatedMarker), seen, "truncated")
        ELSE IF tracked /\ v.addr \in seen THEN Leaf(Return(CycleMarker(v.addr)), seen, "cycle")
        ELSE IF branch = "_serialize_primitive"
        THEN Leaf(_serialize_primitive(v), marked, "serialize")
        ELSE IF branch = "_serialize_string"
        THEN Leaf(_serialize_string(mem, v), marked, "serialize")
        ELSE IF branch = "_serialize_str_ref"
        THEN Leaf(_serialize_str_ref(v), marked, "serialize")
        ELSE [ immediate |-> FALSE, act |-> Activation(branch, v, depth), visited |-> marked,
               call |-> Call(v, depth, "serialize"), probes |-> <<>> ]

\* stage: the number of elements serialised; failed: the except clause
_serialize_vec(mem, act) ==
    LET v == act.v
        len_child == GetChildMemberWithName(v, <<"len">>)
        length == len_child.uns
        buf == GetChildMemberWithName(v, <<"buf">>)
        ptr == providers_find_pointer_in_buf(buf)
        ptr_addr == ptr.value.uns
        max_elements == Min(length, MaxVecElements)
        i == act.stage
        addr == ptr_addr + i * v.elem.size
        elem == CreateValueFromAddress(mem, <<"[">> \o IntToStr(i) \o <<"]">>, addr, v.elem)
        looked == IF i = 0 THEN <<PointerProbe(buf)>> ELSE <<>>
    IN  IF ~len_child.valid \/ length = 0 THEN Returns(JList(<<>>))
        ELSE IF ~v.elem.valid \/ ~buf.valid THEN Returns(ElementsPlaceholder(length))
        ELSE IF act.failed THEN Returns(ElementsPlaceholder(length))
        ELSE IF ~ptr.found \/ ~ptr.value.valid
        THEN Probing(Returns(ElementsPlaceholder(length)), looked)
        ELSE IF ptr_addr = 0 THEN Probing(Returns(JList(<<>>)), looked)
        ELSE IF i < max_elements
        THEN Probing(Calls(elem, [act EXCEPT !.stage = i + 1]),
                     Append(looked, CreateProbe(addr, i)))
        ELSE IF length > max_elements
        THEN Returns(JList(Append(act.items, MoreElements(length - max_elements))))
        ELSE Returns(JList(act.items))

\* the first child the fallback loop of _serialize_option takes, or 0
SomeLikeChild(v) ==
    LET hits == { i \in 1..Len(v.kids) :
                    LET name == IF v.kids[i].name = None THEN <<>> ELSE v.kids[i].name
                    IN  /\ ~StartsWith(name, <<"$">>)
                        /\ \/ Contains(name, <<"Some">>)
                           \/ name \in {<<"__", "0">>, <<"0">>} }
    IN  IF hits = {} THEN 0 ELSE Least(hits)

\* stage 1: the inner value has been serialised
_serialize_option(act) ==
    LET v == act.v
        first == GetChildAtIndex(v, 0)
        variants == GetChildMemberWithName(v, <<"$", "variants", "$">>)
        variant1 == GetChildMemberWithName(variants, <<"$", "variant", "$", "1">>)
        discr1 == GetChildMemberWithName(variant1, <<"$", "discr", "$">>)
        val_child == GetChildMemberWithName(variant1, <<"value">>)
        named == GetChildMemberWithName(val_child, <<"__", "0">>)
        inner == IF named.valid THEN named ELSE GetChildAtIndex(val_child, 0)
        variant0 == GetChildMemberWithName(variants, <<"$", "variant", "$", "0">>)
        discr0 == GetChildMemberWithName(variant0, <<"$", "discr", "$">>)
        Some(child) == Calls(child, [act EXCEPT !.stage = 1])
    IN  IF act.failed THEN Raises(act.error)
        ELSE IF act.stage = 1 THEN Returns(KindOption(<<"Some">>, Inner, act.items[1]))
        ELSE IF EndsWith(v.type, <<"::", "None">>)
        THEN Returns(KindOption(<<"None">>, Inner, JNull))
        ELSE IF EndsWith(v.type, <<"::", "Some">>)
        THEN IF first.valid THEN Some(first)
             ELSE Returns(KindOption(<<"Some">>, Inner, JNull))
        ELSE IF /\ variants.valid /\ variant1.valid /\ discr1.valid /\ discr1.uns = 1
                /\ val_child.valid /\ inner.valid
        THEN Some(inner)
        ELSE IF variants.valid /\ variant0.valid /\ discr0.valid /\ discr0.uns = 0
        THEN Returns(KindOption(<<"None">>, Inner, JNull))
        ELSE IF SomeLikeChild(v) # 0 THEN Some(v.kids[SomeLikeChild(v)])
        ELSE IF Truthy(v.summary) /\ Contains(v.summary, <<"Some">>)
        THEN Returns(KindOption(<<"Some">>, Summary, JStr(v.summary)))
        ELSE IF Truthy(v.summary) /\ Contains(v.summary, <<"None">>)
        THEN Returns(KindOption(<<"None">>, Inner, JNull))
        ELSE Returns(KindOption(<<"unknown">>, Summary, JStr(SummaryOrEmpty(v))))

\* stage 1: the inner value has been serialised
_serialize_result(act) ==
    LET v == act.v
        first == GetChildAtIndex(v, 0)
        variant == IF EndsWith(v.type, <<"::", "Ok">>) THEN <<"Ok">> ELSE <<"Err">>
    IN  IF act.failed THEN Raises(act.error)
        ELSE IF act.stage = 1 THEN Returns(KindResult(variant, Inner, act.items[1]))
        ELSE IF EndsWith(v.type, <<"::", "Ok">>) \/ EndsWith(v.type, <<"::", "Err">>)
        THEN IF first.valid THEN Calls(first, [act EXCEPT !.stage = 1])
             ELSE Returns(KindResult(variant, Inner, JNull))
        ELSE IF Truthy(v.summary) /\ Contains(v.summary, <<"Ok">>)
        THEN Returns(KindResult(<<"Ok">>, Summary, JStr(v.summary)))
        ELSE IF Truthy(v.summary) /\ Contains(v.summary, <<"Err">>)
        THEN Returns(KindResult(<<"Err">>, Summary, JStr(v.summary)))
        ELSE Returns(KindResult(<<"unknown">>, Summary, JStr(SummaryOrEmpty(v))))

\* the child the loop over ['value', 'data'] names finds, or an invalid value
ValueOrDataChild(v) ==
    LET hits == {i \in 1..Len(v.kids) : v.kids[i].name \in {<<"value">>, <<"data">>}}
    IN  IF hits = {} THEN Invalid ELSE v.kids[Least(hits)]

(***************************************************************************)
(* _serialize_smart_pointer makes up to four calls.  The stage is the last *)
(* call made: 1 the 'data' or 'value' field behind ptr.pointer, 2 the      *)
(* allocation behind ptr.pointer, 3 the 'value' child, 4 the first child.  *)
(* items holds inner_value once a call has been made.                      *)
(***************************************************************************)
_serialize_smart_pointer(mem, act) ==
    LET v == act.v
        inner_value == IF act.items = <<>> THEN JNull ELSE act.items[1]
        ptr == GetChildMemberWithName(v, <<"ptr">>)
        pointer == GetChildMemberWithName(ptr, <<"pointer">>)
        inner == Dereference(mem, pointer)
        data_field == GetChildMemberWithName(inner, <<"data">>)
        data == IF data_field.valid THEN data_field
                ELSE GetChildMemberWithName(inner, <<"value">>)
        direct == GetChildMemberWithName(v, <<"value">>)
        val_child == IF direct.valid THEN direct ELSE ValueOrDataChild(v)
        real_val == GetChildMemberWithName(val_child, <<"value">>)
        child == GetChildAtIndex(v, 0)
        deref == Dereference(mem, child)
        Stage(n, callee) == Calls(callee, [act EXCEPT !.stage = n])
        extracted ==
            IF /\ IsDict(inner_value)
               /\ HasKey(inner_value, <<"strong">>) \/ HasKey(inner_value, <<"weak">>)
               /\ HasKey(inner_value, <<"value">>)
            THEN GetItem(inner_value, <<"value">>)
            ELSE inner_value
        finish ==
            Returns(JDict(<< Item(<<"__ferrumpy_kind__">>, JStr(<<pointer_kind(v.type)>>)),
                             Item(Inner, extracted) >>))
        first_child ==
            IF inner_value = JNull /\ Len(v.kids) > 0
            THEN Stage(4, IF deref.valid THEN deref ELSE child)
            ELSE finish
        value_field ==
            IF /\ \/ inner_value = JNull
                  \/ IsDict(inner_value) /\ HasKey(inner_value, <<"strong">>)
               /\ val_child.valid
               /\ GetChildMemberWithName(val_child, <<"strong">>).valid => real_val.valid
            THEN Stage(3, IF GetChildMemberWithName(val_child, <<"strong">>).valid
                          THEN real_val ELSE val_child)
            ELSE first_child
    IN  IF act.failed THEN Raises(act.error)
        ELSE IF act.stage = 0
        THEN IF ~(ptr.valid /\ pointer.valid /\ inner.valid) THEN value_field
             ELSE IF data.valid THEN Stage(1, data)
             ELSE Stage(2, inner)
        ELSE IF act.stage = 1
        THEN IF inner_value = JNull THEN Stage(2, inner) ELSE value_field
        ELSE IF act.stage = 2 THEN value_field
        ELSE IF act.stage = 3 THEN first_child
        ELSE finish

\* the children i..(n - 1) that are valid; the others become None
NextValidChild(v, i, n) == Least({j \in i..(n - 1) : GetChildAtIndex(v, j).valid} \cup {n})
Nones(n) == [k \in 1..n |-> JNull]

\* stage: the number of children gone through
_serialize_tuple(act) ==
    LET v == act.v
        num_children == Len(v.kids)
        j == NextValidChild(v, act.stage, num_children)
        elements == act.items \o Nones(j - act.stage)
    IN  IF act.failed THEN Raises(act.error)
        ELSE IF j < num_children
        THEN Calls(GetChildAtIndex(v, j), [act EXCEPT !.stage = j + 1, !.items = elements])
        ELSE Returns(JDict(<< Item(<<"__ferrumpy_kind__">>, JStr(<<"tuple">>)),
                              Item(<<"__elements__">>, JList(elements)),
                              Item(<<"__type__">>, JStr(v.type)) >>))

_serialize_fixed_array(act) ==
    LET v == act.v
        num_children == Len(v.kids)
        n == Min(num_children, MaxVecElements)
        j == NextValidChild(v, act.stage, n)
        elements == act.items \o Nones(j - act.stage)
    IN  IF act.failed THEN Raises(act.error)
        ELSE IF j < n
        THEN Calls(GetChildAtIndex(v, j), [act EXCEPT !.stage = j + 1, !.items = elements])
        ELSE Returns(JDict(<< Item(<<"__ferrumpy_kind__">>, JStr(<<"array">>)),
                              Item(<<"__elements__">>, JList(elements)),
                              Item(<<"__type__">>, JStr(v.type)),
                              Item(<<"__length__">>, JInt(num_children)) >>))

\* the key of child i of a struct
FieldKey(v, i) ==
    IF GetChildAtIndex(v, i).name = None THEN <<"_">> \o IntToStr(i)
    ELSE GetChildAtIndex(v, i).name
Internal(name) == StartsWith(name, <<"$">>)

\* stage: the number of children gone through
_serialize_struct(act) ==
    LET v == act.v
        num_children == Len(v.kids)
        n == Min(num_children, MaxStructFields)
        j == Least({k \in act.stage..(n - 1) :
                        GetChildAtIndex(v, k).valid /\ ~Internal(FieldKey(v, k))} \cup {n})
    IN  IF j < n THEN Calls(GetChildAtIndex(v, j), [act EXCEPT !.stage = j + 1])
        ELSE IF num_children > MaxStructFields
        THEN Returns(JDict(SetItem(act.items, <<"__truncated__">>,
                                   MoreFields(num_children - MaxStructFields))))
        ELSE Returns(JDict(act.items))

\* serialize_frame without the test on the first character of the name
SerializeFrameAll(f, act) ==
    LET j == Least({k \in (act.stage + 1)..Len(f.vars) :
                        f.vars[k].valid /\ f.vars[k].name # None} \cup {Len(f.vars) + 1})
    IN  IF ~f.valid
        THEN Returns(JDict(<< Item(<<"variables">>, JDict(<<>>)),
                              Item(<<"types">>, JDict(<<>>)) >>))
        ELSE IF j <= Len(f.vars) THEN Calls(f.vars[j], [act EXCEPT !.stage = j])
        ELSE Returns(JDict(<< Item(<<"variables">>, JDict(act.items)),
                              Item(<<"types">>, JDict(act.types)) >>))

\* stage: the number of variables gone through; its calls are at depth 0
serialize_frame(f, act) ==
    LET j == Least({k \in (act.stage + 1)..Len(f.vars) :
                        /\ f.vars[k].valid /\ f.vars[k].name # None
                        /\ ~Internal(f.vars[k].name)} \cup {Len(f.vars) + 1})
    IN  IF ~f.valid
        THEN Returns(JDict(<< Item(<<"variables">>, JDict(<<>>)),
                              Item(<<"types">>, JDict(<<>>)) >>))
        ELSE IF j <= Len(f.vars) THEN Calls(f.vars[j], [act EXCEPT !.stage = j])
        ELSE Returns(JDict(<< Item(<<"variables">>, JDict(act.items)),
                              Item(<<"types">>, JDict(act.types)) >>))

\* what the activation does next
Resume(f, act) ==
    CASE act.fn = "_serialize_vec" -> _serialize_vec(f.heap, act)
      [] act.fn = "_serialize_option" -> _serialize_option(act)
      [] act.fn = "_serialize_result" -> _serialize_result(act)
      [] act.fn = "_serialize_smart_pointer" -> _serialize_smart_pointer(f.heap, act)
      [] act.fn = "_serialize_tuple" -> _serialize_tuple(act)
      [] act.fn = "_serialize_fixed_array" -> _serialize_fixed_array(act)
      [] act.fn = "_serialize_struct" -> _serialize_struct(act)
      [] act.fn = "serialize_frame" -> serialize_frame(f, act)

\* the activation after the value_to_json it called has returned or raised r:
\* a struct and a frame put the error in the place of the value, a Vec goes
\* to its except clause, the others let the exception through
Receive(f, act, r) ==
    LET json == IF r.raised THEN ErrorMarker(r.error) ELSE r.json
        var == f.vars[act.stage]
    IN  IF act.fn = "_serialize_struct"
        THEN [act EXCEPT !.items = SetItem(@, FieldKey(act.v, act.stage - 1), json)]
        ELSE IF act.fn = "serialize_frame"
        THEN [act EXCEPT !.items = SetItem(@, var.name, json),
                         !.types = SetItem(@, var.name,
                                       IF r.raised THEN JStr(<<"?">>)
                                       ELSE JStr(normalize_type_name(var.type)))]
        ELSE IF r.raised THEN [act EXCEPT !.failed = TRUE, !.error = r.error]
        ELSE IF act.fn \in {"_serialize_vec", "_serialize_tuple", "_serialize_fixed_array"}
        THEN [act EXCEPT !.items = Append(@, r.json)]
        ELSE [act EXCEPT !.items = <<r.json>>]

(***************************************************************************)
(* Frames with reference-counted nodes linked in a ring: node i is held by *)
(* an allocation at NodeAddr(i) and its field next points to node i + 1,   *)
(* the last one back to node 0.  The variables head and tail are handles   *)
(* on the stack to node 0 and to the last node.                            *)
(***************************************************************************)
MaxRing == 3
HeapBase == 16384
NodeStride == 64
HeadAddr == 600
TailAddr == 608

NodeAddr(i) == HeapBase + NodeStride * i
NodeType == <<"rust_sample", "::", "Node">>
HandleType(w) == (IF w.arc THEN StdArc ELSE StdRc) \o <<"<">> \o NodeType \o <<">">>
AllocationType(w) ==
    (IF w.arc THEN <<"alloc", "::", "sync", "::", "ArcInner">>
     ELSE <<"alloc", "::", "rc", "::", "RcBox">>) \o <<"<">> \o NodeType \o <<">">>
NonNullType(w) ==
    <<"core", "::", "ptr", "::", "non_null", "::", "NonNull", "<">> \o AllocationType(w) \o <<">">>
PointerType(w) == <<"*", "const", " ">> \o AllocationType(w)
OptionType(w) == StdOption \o <<"<">> \o HandleType(w) \o <<">">>

RawPointer(name, type, addr, to) ==
    [Scalar(name, type, addr, <<"0x">> \o IntToHex(to), to) EXCEPT !.pointee = to]

\* a handle at addr to node i: through ptr.pointer, or with the raw pointer
\* as its only child
Handle(w, name, addr, i) ==
    IF w.viaPtr
    THEN SBValue(name, HandleType(w), addr,
             << SBValue(<<"ptr">>, NonNullType(w), addr,
                    << RawPointer(<<"pointer">>, PointerType(w), addr, NodeAddr(i)) >>) >>)
    ELSE SBValue(name, HandleType(w), addr,
             << RawPointer(<<"__", "0">>, PointerType(w), addr, NodeAddr(i)) >>)

\* Option<handle> as the debugger shows an enum: the handle shares the
\* address of the Option around it
SomeHandle(w, name, addr, i) ==
    SBValue(name, OptionType(w), addr,
        << SBValue(<<"$", "variants", "$">>, OptionType(w), addr,
               << SBValue(<<"$", "variant", "$", "1">>, OptionType(w), addr,
                      << Scalar(<<"$", "discr", "$">>, <<"u64">>, addr, <<"1">>, 1),
                         SBValue(<<"value">>, OptionType(w) \o <<"::", "Some">>, addr,
                             << Handle(w, <<"__", "0">>, addr, i) >>) >>) >>) >>)

Node(w, i) ==
    SBValue(IF w.arc THEN <<"data">> ELSE <<"value">>, NodeType, NodeAddr(i) + 16,
        << Scalar(<<"id">>, <<"u32">>, NodeAddr(i) + 16, IntToStr(i), i),
           IF w.option THEN SomeHandle(w, <<"next">>, NodeAddr(i) + 24, (i + 1) % w.nodes)
           ELSE Handle(w, <<"next">>, NodeAddr(i) + 24, (i + 1) % w.nodes) >>)

Allocation(w, i) ==
    SBValue(None, AllocationType(w), NodeAddr(i),
        << Scalar(<<"strong">>, <<"usize">>, NodeAddr(i), <<"2">>, 2),
           Scalar(<<"weak">>, <<"usize">>, NodeAddr(i) + 8, <<"1">>, 1),
           Node(w, i) >>)

RingFrame(w) ==
    [ valid |-> TRUE,
      vars |-> << Handle(w, <<"head">>, HeadAddr, 0),
                  Handle(w, <<"tail">>, TailAddr, w.nodes - 1) >>,
      heap |-> [a \in {NodeAddr(i) : i \in 0..(w.nodes - 1)} |->
                   Allocation(w, (a - HeapBase) \div NodeStride)] ]

RingShapes ==
    [nodes : 1..MaxRing, arc : BOOLEAN, viaPtr : BOOLEAN, option : BOOLEAN]
RingFrames == {RingFrame(w) : w \in RingShapes}

(***************************************************************************)
(* Frames with one container of f64 numbers, of which at most one has a    *)
(* text that float() rejects.                                              *)
(***************************************************************************)
MaxFields == 3
NumbersAddr == 700
NumbersHeap == 32768
Unreadable == <<"<unavailable>">>
ContainerKinds == {"struct", "vec", "tuple", "array"}

NumberText(j) == <<IntToStr(j)[1], ".", "5">>
Number(name, addr, j, bad) ==
    Scalar(name, <<"f64">>, addr, IF j = bad THEN Unreadable ELSE NumberText(j), 0)

RECURSIVE TupleTypeArgs(_)
TupleTypeArgs(n) ==
    IF n = 1 THEN <<"f64">> ELSE TupleTypeArgs(n - 1) \o <<",", " ", "f64">>

ContainerType(w) ==
    IF w.kind = "struct" THEN <<"rust_sample", "::", "Config">>
    ELSE IF w.kind = "vec" THEN StdVec \o <<"<", "f64", ",", " ">> \o AllocGlobal \o <<">">>
    ELSE IF w.kind = "tuple" THEN <<"(">> \o TupleTypeArgs(w.size) \o <<")">>
    ELSE <<"[", "f64", ";", " ">> \o IntToStr(w.size) \o <<"]">>

\* the name of member j, counted from 1
MemberName(w, j) ==
    IF w.kind = "struct" THEN <<"x", IntToStr(j)[1]>>
    ELSE IF w.kind = "tuple" THEN <<"__">> \o IntToStr(j - 1)
    ELSE <<"[">> \o IntToStr(j - 1) \o <<"]">>

Container(w) ==
    IF w.kind = "vec"
    THEN [ SBValue(<<"numbers">>, ContainerType(w), NumbersAddr,
               << RawBuffer(1, NumbersAddr, NumbersHeap),
                  Scalar(<<"len">>, <<"usize">>, NumbersAddr + 16, IntToStr(w.size), w.size) >>)
           EXCEPT !.elem = SBType(8) ]
    ELSE SBValue(<<"numbers">>, ContainerType(w), NumbersAddr,
             [j \in 1..w.size |->
                 Number(MemberName(w, j), NumbersAddr + 8 * (j - 1), j, w.bad)])

ContainerFrame(w) ==
    [ valid |-> TRUE,
      vars |-> << Container(w),
                  SBValue(<<"config">>, <<"rust_sample", "::", "Wrapper">>, NumbersAddr,
                      << Container(w), Scalar(<<"id">>, <<"u32">>, NumbersAddr + 64, <<"7">>, 7) >>) >>,
      heap |-> IF w.kind # "vec" THEN [a \in {} |-> Invalid]
               ELSE [a \in {NumbersHeap + 8 * (j - 1) : j \in 1..w.size} |->
                        Number(None, a, ((a - NumbersHeap) \div 8) + 1, w.bad)] ]

ContainerShapes ==
    {w \in [kind : ContainerKinds, size : 1..MaxFields, bad : 0..MaxFields] : w.bad <= w.size}
ContainerFrames == {ContainerFrame(w) : w \in ContainerShapes}

(***************************************************************************)
(* Frames with two vectors of the same length: items, a Vec<i32>, and      *)
(* names, a Vec<String>.  The lengths lie around the element caps of the   *)
(* formatter and of the serializer.                                        *)
(***************************************************************************)
MaxExtra == 2
ItemsAddr == 800
NamesAddr == ItemsAddr + 32
ItemsHeap == 3 * HeapBase
NamesHeap == 4 * HeapBase
ItemSize == 4
StringSize == 6 * ItemSize

SequenceLens ==
    { 0, 1, TruncateAt, TruncateAt + 1, TruncateAt + MaxExtra,
      MaxVecElements, MaxVecElements + 1, MaxVecElements + MaxExtra }

VecOf(t) == StdVec \o <<"<">> \o t \o <<",", " ">> \o AllocGlobal \o <<">">>

Items(n) ==
    [ SBValue(<<"items">>, VecOf(<<"i32">>), ItemsAddr,
          << RawBuffer(1, ItemsAddr, ItemsHeap),
             Scalar(<<"len">>, <<"usize">>, ItemsAddr + 16, IntToStr(n), n) >>)
      EXCEPT !.elem = SBType(ItemSize) ]

Names(n) ==
    [ SBValue(<<"names">>, VecOf(StdString), NamesAddr,
          << RawBuffer(1, NamesAddr, NamesHeap),
             Scalar(<<"len">>, <<"usize">>, NamesAddr + 16, IntToStr(n), n) >>)
      EXCEPT !.elem = SBType(StringSize) ]

SequenceFrame(n) ==
    [ valid |-> TRUE,
      vars |-> << Items(n), Names(n) >>,
      heap |-> [ a \in {ItemsHeap + ItemSize * i : i \in 0..(n - 1)}
                       \cup {NamesHeap + StringSize * i : i \in 0..(n - 1)} |->
                   IF a < NamesHeap
                   THEN Scalar(None, <<"i32">>, a, IntToStr((a - ItemsHeap) \div ItemSize),
                               (a - ItemsHeap) \div ItemSize)
                   ELSE StringValue(None, a,
                            <<"n">> \o IntToStr((a - NamesHeap) \div StringSize)) ] ]

SequenceFrames == {SequenceFrame(n) : n \in SequenceLens}

(***************************************************************************)
(* Frames with a tree whose nodes hold their children in a Vec<Tree>: a    *)
(* single branch of 'nest' nodes below the root, each the only child of    *)
(* the one above it.                                                       *)
(***************************************************************************)
MaxNest == 11
TreeAddr == ItemsAddr + 100
TreeHeap == 5 * HeapBase
TreeSize == UserSize

TreeType == <<"rust_sample", "::", "Tree">>
TreeNodeAddr(j) == IF j = 0 THEN TreeAddr ELSE TreeHeap + TreeSize * j

TreeNode(name, j, nest) ==
    [ SBValue(name, TreeType, TreeNodeAddr(j),
          << Scalar(<<"id">>, <<"u32">>, TreeNodeAddr(j), IntToStr(j), j),
             [ SBValue(<<"children">>, VecOf(TreeType), TreeNodeAddr(j) + 8,
                   << RawBuffer(1, TreeNodeAddr(j) + 8, TreeNodeAddr(j + 1)),
                      Scalar(<<"len">>, <<"usize">>, TreeNodeAddr(j) + 24,
                             IF j < nest THEN <<"1">> ELSE <<"0">>,
                             IF j < nest THEN 1 ELSE 0) >>)
               EXCEPT !.elem = SBType(TreeSize) ] >>)
      EXCEPT !.elem = NoType ]

TreeFrame(nest) ==
    [ valid |-> TRUE,
      vars |-> << TreeNode(<<"tree">>, 0, nest) >>,
      heap |-> [ a \in {TreeNodeAddr(j) : j \in 1..nest} |->
                   TreeNode(None, (a - TreeHeap) \div TreeSize, nest) ] ]

TreeFrames == {TreeFrame(nest) : nest \in {1, MaxNest - 2, MaxNest}}

(***************************************************************************)
(* Frames with an Option<i32> and a Result<i32, ParseError> in each of the *)
(* encodings the debugger has for an enum: the variant as a suffix of the  *)
(* type name, the $variants$ table with a discriminant in every variant,   *)
(* a flat $discr$ field, nothing but a summary, nothing at all.  variant   *)
(* is the discriminant (0: None / Ok, 1: Some / Err); wrapper says whether *)
(* the payload wrapper is there.  The frame also has a variable the        *)
(* debugger made up ($-name), one that is not valid and a tuple whose      *)
(* element cannot be read.                                                 *)
(***************************************************************************)
MaybeAddr == ItemsAddr + 200
OutcomeAddr == ItemsAddr + 232
Encodings == {"suffix", "variants", "flat", "summary", "opaque"}

OptionI32 == StdOption \o <<"<", "i32", ">">>
ParseError == <<"rust_sample", "::", "ParseError">>
ResultType == StdResult \o <<"<", "i32", ",", " ">> \o ParseError \o <<">">>
VariantNames(result) == IF result THEN << <<"Ok">>, <<"Err">> >> ELSE << <<"None">>, <<"Some">> >>

\* the payload of variant d of the Option (result = FALSE) or of the Result
Payload(result, d, addr) ==
    IF result /\ d = 1
    THEN SBValue(<<"__", "0">>, ParseError, addr,
             << Scalar(<<"code">>, <<"i32">>, addr, <<"2">>, 2) >>)
    ELSE Scalar(<<"__", "0">>, <<"i32">>, addr, <<"7">>, 7)

Discriminant(d, addr) == Scalar(<<"$", "discr", "$">>, <<"u64">>, addr, IntToStr(d), d)

\* what the discriminant fields read: the index of the variant, or, where the
\* memory holds no tag of the type (a local not yet initialised, a niche), a
\* value that is neither 0 nor 1
StrayDiscr == 2
DiscrOf(w) == IF w.stray THEN StrayDiscr ELSE w.variant

\* $variant$k of the table: its discriminant and the wrapper of its payload
VariantEntry(result, type, w, k, addr) ==
    SBValue(<<"$", "variant", "$">> \o IntToStr(k), type, addr,
        << Discriminant(DiscrOf(w), addr) >>
        \o ( IF w.wrapper /\ (result \/ k = 1)
             THEN << SBValue(<<"value">>, type \o <<"::">> \o VariantNames(result)[k + 1],
                         addr + 8, << Payload(result, k, addr + 8) >>) >>
             ELSE <<>> ))

Enum(result, name, type, addr, w) ==
    LET variant == VariantNames(result)[w.variant + 1]
        hasPayload == w.wrapper /\ (result \/ w.variant = 1)
    IN  IF w.encoding = "suffix"
        THEN SBValue(name, type \o <<"::">> \o variant, addr,
                 IF hasPayload THEN << Payload(result, w.variant, addr) >> ELSE <<>>)
        ELSE IF w.encoding = "variants"
        THEN SBValue(name, type, addr,
                 << SBValue(<<"$", "variants", "$">>, type, addr,
                        << VariantEntry(result, type, w, 0, addr),
                           VariantEntry(result, type, w, 1, addr) >>) >>)
        ELSE IF w.encoding = "flat"
        THEN SBValue(name, type, addr,
                 << Discriminant(DiscrOf(w), addr) >>
                 \o ( IF hasPayload
                      THEN << SBValue(<<"value">>, type \o <<"::">> \o variant, addr + 8,
                                  << Payload(result, w.variant, addr + 8) >>) >>
                      ELSE <<>> ))
        ELSE IF w.encoding = "summary"
        THEN [ SBValue(name, type, addr, <<>>)
               EXCEPT !.summary = IF hasPayload THEN variant \o <<"(", "7", ")">> ELSE variant ]
        ELSE SBValue(name, type, addr, <<>>)

EnumFrame(w) ==
    [ valid |-> TRUE,
      vars |-> << Enum(FALSE, <<"maybe">>, OptionI32, MaybeAddr, w),
                  Invalid,
                  Container([kind |-> "tuple", size |-> 1, bad |-> 1]),
                  Scalar(<<"$", "tmp">>, <<"i32">>, MaybeAddr + 16, <<"1">>, 1),
                  Enum(TRUE, <<"outcome">>, ResultType, OutcomeAddr, w) >>,
      heap |-> [a \in {} |-> Invalid] ]

EnumShapes == [encoding : Encodings, variant : {0, 1}, wrapper : BOOLEAN, stray : BOOLEAN]
EnumFrames == {EnumFrame(w) : w \in EnumShapes}

\* the frame of a thread that is not stopped anywhere
NoFrame == [valid |-> FALSE, vars |-> <<>>, heap |-> [a \in {} |-> Invalid]]


(***************************************************************************)
(* The serializer driver: value_to_json on one variable of the frame with  *)
(* a fresh visited set, then serialize_frame on the whole frame.  A step   *)
(* runs the innermost activation up to its next call or to its end.        *)
(***************************************************************************)
SerializeFrames ==
    Frames \cup RingFrames \cup ContainerFrames \cup SequenceFrames \cup TreeFrames
        \cup EnumFrames \cup {NoFrame}

InitSerialize ==
    /\ BridgeIdle
    /\ pc = "start"
    /\ frame \in SerializeFrames
    /\ target \in {frame.vars[i] : i \in 1..Len(frame.vars)} \cup {Invalid}
    /\ target = Invalid => frame \in EnumFrames \cup {NoFrame}
    /\ stack = <<>> /\ visited = {} /\ calls = <<>> /\ probes = <<>>
    /\ snapshot = Idle /\ dump = Idle /\ FormatIdle
    /\ NormalizeIdle /\ dispatched = Idle /\ TokenizeIdle /\ ResolveIdle

Top == stack[Len(stack)]
Caller == stack[Len(stack) - 1]
ReplaceTop(callstack, act) == [callstack EXCEPT ![Len(callstack)] = act]
Pop(callstack) == SubSeq(callstack, 1, Len(callstack) - 1)

\* the top-level value_to_json has gone as far as entry
Entered(entry) ==
    /\ visited' = entry.visited
    /\ calls' = <<entry.call>>
    /\ probes' = entry.probes
    /\ IF entry.immediate
       THEN snapshot' = entry.result /\ pc' = "serialized" /\ stack' = <<>>
       ELSE snapshot' = snapshot /\ pc' = "serializing" /\ stack' = <<entry.act>>

\* value_to_json(target)
Serialize ==
    /\ pc = "start"
    /\ Entered(value_to_json(frame.heap, target, {}, 0))
    /\ UNCHANGED <<normVars, dispatched, pathVars, frame, bridgeVars, resolveVars, target, dump,
                   formatVars>>

\* serialize_frame(frame)
SerializeFrame ==
    /\ pc = "serialized"
    /\ stack' = <<Activation("serialize_frame", Invalid, 0 - 1)>>
    /\ visited' = {}
    /\ calls' = <<>>
    /\ probes' = <<>>
    /\ pc' = "dumping"
    /\ UNCHANGED <<normVars, dispatched, pathVars, frame, bridgeVars, resolveVars, target, snapshot, dump,
                   formatVars>>

\* the stack and the logs after the call next, where entry is what the
\* called value_to_json does first
Descend(next, entry) ==
    /\ visited' = entry.visited
    /\ calls' = Append(calls, entry.call)
    /\ probes' = probes \o next.probes \o entry.probes
    /\ stack' = IF entry.immediate
                THEN ReplaceTop(stack, Receive(frame, next.act, entry.result))
                ELSE Append(ReplaceTop(stack, next.act), entry.act)

DescendOf(next) ==
    /\ next.kind = "call"
    /\ Descend(next, value_to_json(frame.heap, next.child, visited, next.act.depth + 1))

\* the innermost activation calls value_to_json on a child
SerializeCall ==
    /\ pc \in {"serializing", "dumping"}
    /\ DescendOf(Resume(frame, Top))
    /\ UNCHANGED <<pc, normVars, dispatched, pathVars, frame, bridgeVars, resolveVars, target, snapshot,
                   dump, formatVars>>

\* the result r of the innermost activation goes to its caller
Ascend(r) ==
    IF Len(stack) > 1
    THEN /\ stack' = ReplaceTop(Pop(stack), Receive(frame, Caller, r))
         /\ UNCHANGED <<pc, snapshot, dump>>
    ELSE /\ stack' = <<>>
         /\ IF pc = "serializing"
            THEN snapshot' = r /\ pc' = "serialized" /\ dump' = dump
            ELSE dump' = r.json /\ pc' = "dumped" /\ snapshot' = snapshot

AscendOf(step) ==
    /\ step.kind # "call"
    /\ probes' = probes \o step.probes
    /\ Ascend(step.result)

\* the innermost activation returns or raises
SerializeReturn ==
    /\ pc \in {"serializing", "dumping"}
    /\ AscendOf(Resume(frame, Top))
    /\ UNCHANGED <<normVars, dispatched, pathVars, frame, bridgeVars, resolveVars, target, visited, calls,
                   formatVars>>

NextSerialize == Serialize \/ SerializeFrame \/ SerializeCall \/ SerializeReturn

SpecSerialize == InitSerialize /\ [][NextSerialize]_vars


(***************************************************************************)
(* What a finished value_to_json(target) did, read off the call log.       *)
(***************************************************************************)
Serialized == pc = "serialized"
OfRing == frame \in RingFrames
OfContainer == frame \in ContainerFrames

\* the calls that went into the node held at NodeAddr(i)
NodeVisits(i) ==
    { k \in 1..Len(calls) :
        /\ calls[k].type = NodeType /\ calls[k].addr = NodeAddr(i) + 16
        /\ calls[k].outcome = "serialize" }
MarkerEmitted == \E k \in 1..Len(calls) : calls[k].outcome = "cycle"
DepthLimitHit == \E k \in 1..Len(calls) : calls[k].outcome = "truncated"

\* C2: on a ring of reference-counted nodes value_to_json comes to an end
\* without an exception and without running into the depth limit, a
\* __cycle__ marker is emitted, and no node is gone into a second time: the
\* second visit to a node gives the marker instead.
CycleMarkerOnSecondVisit ==
    (Serialized /\ OfRing) =>
        /\ ~snapshot.raised
        /\ MarkerEmitted /\ ~DepthLimitHit
        /\ \A i \in 0..(MaxRing - 1) : Cardinality(NodeVisits(i)) <= 1

\* the shape of the container frame, and the container as it was serialised:
\* the target itself, or the field numbers of the target
ShapeOfFrame == CHOOSE w \in ContainerShapes : ContainerFrame(w) = frame
ContainerJson ==
    IF target.name = <<"numbers">> THEN snapshot.json
    ELSE IF IsDict(snapshot.json) /\ HasKey(snapshot.json, <<"numbers">>)
    THEN GetItem(snapshot.json, <<"numbers">>)
    ELSE JNull

\* the serialised form in the place of member j of the container, if it has one
ElementsOf(json) ==
    IF json.t = "list" THEN json.v
    ELSE IF IsDict(json) /\ HasKey(json, <<"__elements__">>)
    THEN GetItem(json, <<"__elements__">>).v
    ELSE <<>>
HasMember(w, json, j, expected) ==
    IF w.kind = "struct"
    THEN /\ IsDict(json) /\ HasKey(json, MemberName(w, j))
         /\ GetItem(json, MemberName(w, j)).t = expected.t
         /\ GetItem(json, MemberName(w, j)) = expected
    ELSE /\ j <= Len(ElementsOf(json))
         /\ ElementsOf(json)[j].t = expected.t
         /\ ElementsOf(json)[j] = expected

\* C4: when one member of a struct, Vec, tuple or array fails to serialise,
\* the result of the container still holds the serialised form of every
\* other member in its place, and an error marker in the place of the
\* failed one.
FailureConfinedToMember ==
    (Serialized /\ OfContainer /\ ShapeOfFrame.bad >= 1) =>
        /\ ~snapshot.raised
        /\ \A j \in 1..ShapeOfFrame.size :
              HasMember(ShapeOfFrame, ContainerJson, j,
                        IF j = ShapeOfFrame.bad THEN ErrorMarker(FloatError(Unreadable))
                        ELSE JFloat(FloatOf(NumberText(j))))

(***************************************************************************)
(* providers/__init__.py: the display formatter.  format_value and the     *)
(* formatters of the registry run as activations of a call stack, like the *)
(* serialisers: an activation is one call of format_value together with    *)
(* the formatter it chose.  It holds the value, the depth format_value was *)
(* given (depth), the depth the running formatter was given (at), the      *)
(* options, the number of format_value calls above it (level), whether the *)
(* formatter runs inside format_value's try (guarded), how far it has come *)
(* (stage) and the texts it has collected (parts).                         *)
(***************************************************************************)
FormatOptions(expand, deep, show_addr) ==
    [ expand |-> expand, deep |-> deep, show_addr |-> show_addr,
      max_depth |-> MaxFormatDepth, truncate_at |-> TruncateAt,
      show_truncate_end |-> ShowTruncateEnd ]
DefaultOptions == FormatOptions(FALSE, FALSE, FALSE)
\* the options the commands build: only the three flags are ever set
OptionSets == {FormatOptions(e, d, s) : e \in BOOLEAN, d \in BOOLEAN, s \in BOOLEAN}

LLDB_INVALID_ADDRESS == 0 - 1
MaxDisplayBytes == 256

Text(text) == [raised |-> FALSE, text |-> text]
Thrown(error) == [raised |-> TRUE, text |-> error]

FormatActivation(fn, v, depth, opts, level) ==
    [ fn |-> fn, v |-> v, depth |-> depth, at |-> depth, options |-> opts, level |-> level,
      guarded |-> fn # "_format_default", stage |-> 0, parts |-> <<>>, label |-> <<>>,
      failed |-> FALSE, error |-> <<>> ]

FormatCalls(child, depth, opts, act) ==
    [ kind |-> "call", child |-> child, depth |-> depth, options |-> opts, act |-> act,
      probes |-> <<>> ]
FormatReturns(text) == [kind |-> "return", result |-> Text(text), probes |-> <<>>]
FormatRaises(error) == [kind |-> "raise", result |-> Thrown(error), probes |-> <<>>]

\* an entry of the call log: one call of format_value and how it went on
FormatCall(v, depth, opts, level, outcome) ==
    [ addr |-> v.addr, type |-> v.type, depth |-> depth, deep |-> opts.deep, level |-> level,
      outcome |-> outcome ]

\* "  " * depth
RECURSIVE Indent(_)
Indent(depth) == IF depth <= 0 THEN <<>> ELSE <<"  ">> \o Indent(depth - 1)

\* "\n".join(lines)
RECURSIVE JoinLines(_)
JoinLines(lines) ==
    IF lines = <<>> THEN <<>>
    ELSE IF Len(lines) = 1 THEN lines[1]
    ELSE lines[1] \o <<"\n">> \o JoinLines(Tail(lines))

\* child.GetName() or f"_{i}"
ChildName(v, i) ==
    IF Truthy(GetChildAtIndex(v, i).name) THEN GetChildAtIndex(v, i).name
    ELSE <<"_">> \o IntToStr(i)

\* f"@ 0x{addr:x} " when show_addr is set
addr_prefix(v, opts) ==
    IF opts.show_addr /\ v.addr # LLDB_INVALID_ADDRESS
    THEN <<"@ 0x">> \o IntToHex(v.addr) \o <<" ">>
    ELSE <<>>

format_value(v, depth, opts, level) ==
    IF ~v.valid
    THEN [ immediate |-> TRUE, result |-> Text(<<"<invalid>">>),
           call |-> FormatCall(v, depth, opts, level, "invalid") ]
    ELSE IF opts.deep /\ depth > opts.max_depth
    THEN [ immediate |-> TRUE, result |-> Text(<<"...">>),
           call |-> FormatCall(v, depth, opts, level, "ellipsis") ]
    ELSE [ immediate |-> FALSE,
           act |-> FormatActivation(selected_formatter(v.type), v, depth, opts, level),
           call |-> FormatCall(v, depth, opts, level, "format") ]

_format_struct_compact(v) ==
    LET short_name == LastComponent(v.type)
        num_children == Len(v.kids)
        show_count == Min(num_children, 3)
        Part(i) ==
            LET child == GetChildAtIndex(v, i)
                child_val == IF Truthy(child.summary) THEN child.summary
                             ELSE IF Truthy(child.val) THEN child.val
                             ELSE <<"...">>
            IN  [ok |-> child.valid, text |-> ChildName(v, i) \o <<": ">> \o child_val]
        shown == SelectSeq([k \in 1..show_count |-> Part(k - 1)], LAMBDA p : p.ok)
        parts == [k \in 1..Len(shown) |-> shown[k].text]
                 \o (IF num_children > 3 THEN << <<"...">> >> ELSE <<>>)
    IN  IF num_children = 0 THEN short_name
        ELSE short_name \o <<" { ">> \o JoinComma(parts) \o <<" }">>

\* stage: the number of children gone through; parts: their lines
_format_struct_expanded(act) ==
    LET v == act.v
        depth == act.at
        num_children == Len(v.kids)
        max_show == IF act.options.deep THEN 20 ELSE 10
        n == Min(num_children, max_show)
        j == Least({k \in act.stage..(n - 1) : GetChildAtIndex(v, k).valid} \cup {n})
        more == IF num_children > max_show
                THEN << Indent(depth + 1) \o <<"... (">> \o IntToStr(num_children - max_show)
                            \o <<" more)">> >>
                ELSE <<>>
        lines == << LastComponent(v.type) \o <<" {">> >> \o act.parts \o more
                 \o << Indent(depth) \o <<"}">> >>
    IN  IF act.failed THEN FormatRaises(act.error)
        ELSE IF j < n
        THEN FormatCalls(GetChildAtIndex(v, j), depth + 1, act.options,
                         [act EXCEPT !.stage = j + 1])
        ELSE FormatReturns(JoinLines(lines))

\* str(value)
StrOfValue == <<"<str>">>

_format_default(act) ==
    LET v == act.v
    IN  IF Truthy(v.summary) /\ ~act.options.deep THEN FormatReturns(v.summary)
        ELSE IF Truthy(v.val) THEN FormatReturns(v.val)
        ELSE IF Len(v.kids) > 0
        THEN IF act.options.expand \/ act.options.deep
             THEN _format_struct_expanded([act EXCEPT !.fn = "_format_struct_expanded"])
             ELSE FormatReturns(_format_struct_compact(v))
        ELSE FormatReturns(StrOfValue)

EscapeLexeme(c) ==
    IF c = "\\" THEN "\\\\"
    ELSE IF c = "\"" THEN "\\\""
    ELSE IF c = "\n" THEN "\\n"
    ELSE IF c = "\r" THEN "\\r"
    ELSE IF c = "\t" THEN "\\t"
    ELSE c
_escape_string(text) == [i \in 1..Len(text) |-> EscapeLexeme(text[i])]

_format_string(mem, act) ==
    LET v == act.v
        expand == act.options.expand
        vec == GetChildMemberWithName(v, <<"vec">>)
        len_child == GetChildMemberWithName(vec, <<"len">>)
        length == len_child.uns
        buf == GetChildMemberWithName(vec, <<"buf">>)
        ptr == providers_find_pointer_in_buf(buf)
        ptr_addr == ptr.value.uns
        max_len == Min(length, MaxDisplayBytes)
        read == ReadMemory(mem, ptr_addr, max_len)
        size == <<"  (len=">> \o IntToStr(length) \o <<")">>
        text == _escape_string(read.data)
                \o (IF length > MaxDisplayBytes THEN <<"...">> ELSE <<>>)
    IN  IF Truthy(v.summary)
        THEN IF expand /\ vec.valid /\ len_child.valid
             THEN FormatReturns(v.summary \o size)
             ELSE FormatReturns(v.summary)
        ELSE IF ~vec.valid \/ ~len_child.valid THEN _format_default(act)
        ELSE IF length = 0 THEN FormatReturns(<<"\"\"">>)
        ELSE IF ~buf.valid
        THEN FormatReturns(<<"\"<">> \o IntToStr(length) \o <<" bytes>\"">>)
        ELSE IF ~ptr.found
        THEN Probing(FormatReturns(<<"\"<">> \o IntToStr(length) \o <<" bytes>\"">>),
                     <<PointerProbe(buf)>>)
        ELSE IF ptr_addr = 0 THEN Probing(FormatReturns(<<"\"\"">>), <<PointerProbe(buf)>>)
        ELSE Probing(
                 IF read.failed
                 THEN FormatReturns(<<"\"<error reading ">> \o IntToStr(length)
                                    \o <<" bytes>\"">>)
                 ELSE FormatReturns(<<"\"">> \o text \o <<"\"">>
                                    \o (IF expand THEN size ELSE <<>>)),
                 <<PointerProbe(buf), ReadProbe(ptr_addr, max_len)>>)

\* the plan of a loop that shows every element
VecPlanAll(length, opts) == [k \in 1..length |-> k - 1]

\* the indices get_element is called with, in order; -1 is the place of the
\* elision marker
VecPlan(length, opts) ==
    LET max_display == opts.truncate_at
        show_end == opts.show_truncate_end
        show_start == IF max_display - show_end > 0 THEN max_display - show_end ELSE 0
        tail == IF show_end > 0 THEN show_end ELSE 0
    IN  IF length <= max_display THEN [k \in 1..length |-> k - 1]
        ELSE [k \in 1..show_start |-> k - 1] \o <<0 - 1>>
             \o [k \in 1..tail |-> length - show_end + k - 1]

\* get_element without the element size in the address
GetElementPacked(mem, ptr_addr, idx, elem_type) ==
    CreateValueFromAddress(mem, <<"[">> \o IntToStr(idx) \o <<"]">>, ptr_addr + idx, elem_type)

\* the element get_element(idx) hands to format_value
get_element(mem, ptr_addr, idx, elem_type) ==
    CreateValueFromAddress(mem, <<"[">> \o IntToStr(idx) \o <<"]">>,
                           ptr_addr + idx * elem_type.size, elem_type)

\* the next entry of the plan that takes a call of format_value, or one
\* past the end of the plan
NextElement(mem, act, plan, ptr_addr) ==
    Least({k \in (act.stage + 1)..Len(plan) :
               plan[k] >= 0 /\ get_element(mem, ptr_addr, plan[k], act.v.elem).valid}
          \cup {Len(plan) + 1})

\* the loops over get_element from entry act.stage + 1 of the plan up to
\* entry j, the next one that calls format_value
ListElements(mem, act, length, plan, ptr_addr, looked, size, j) ==
    LET opts == act.options
        NoCallText(k) ==
            IF plan[k] < 0
            THEN <<"... (">> \o IntToStr(length - opts.truncate_at) \o <<" more)">>
            ELSE <<"?">>
        passed == [k \in 1..(j - act.stage - 1) |-> NoCallText(act.stage + k)]
        upto == IF j <= Len(plan) THEN j ELSE Len(plan)
        created == SelectSeq([k \in 1..(upto - act.stage) |-> act.stage + k],
                             LAMBDA k : plan[k] >= 0)
        accesses ==
            (IF act.stage = 0 THEN looked ELSE <<>>)
            \o [k \in 1..Len(created) |->
                   CreateProbe(get_element(mem, ptr_addr, plan[created[k]], act.v.elem).addr,
                               plan[created[k]])]
    IN  IF j <= Len(plan)
        THEN Probing(FormatCalls(get_element(mem, ptr_addr, plan[j], act.v.elem),
                                 act.at + 1, DefaultOptions,
                                 [act EXCEPT !.stage = j, !.parts = @ \o passed]),
                     accesses)
        ELSE Probing(FormatReturns(<<"[">> \o JoinComma(act.parts \o passed) \o <<"]">>
                                   \o (IF opts.expand THEN size ELSE <<>>)),
                     accesses)

\* cap, read from buf.cap, buf.inner.cap.__0 or buf.inner.cap
VecCapacity(buf) ==
    LET buf_cap == GetChildMemberWithName(buf, <<"cap">>)
        inner == GetChildMemberWithName(buf, <<"inner">>)
        cap_child == GetChildMemberWithName(inner, <<"cap">>)
        inner_cap == GetChildMemberWithName(cap_child, <<"__", "0">>)
    IN  IF ~buf.valid THEN 0
        ELSE IF buf_cap.valid THEN buf_cap.uns
        ELSE IF ~inner.valid \/ ~cap_child.valid THEN 0
        ELSE IF inner_cap.valid THEN inner_cap.uns
        ELSE cap_child.uns

\* stage: the number of entries of the plan gone through; parts: their texts
FormatVecOf(mem, act, len_child, buf, ptr, size) ==
    IF act.failed THEN FormatRaises(act.error)
    ELSE IF ~len_child.valid THEN _format_default(act)
    ELSE IF len_child.uns = 0
    THEN FormatReturns(IF act.options.expand THEN <<"[]">> \o size ELSE <<"[]">>)
    ELSE IF ~act.v.elem.valid
    THEN FormatReturns(<<"[?]  (len=">> \o IntToStr(len_child.uns) \o <<")">>)
    ELSE IF ~ptr.found \/ ~ptr.value.valid
    THEN Probing(FormatReturns(<<"[... ">> \o IntToStr(len_child.uns) \o <<" elements]">>),
                 <<PointerProbe(buf)>>)
    ELSE IF ptr.value.uns = 0 THEN Probing(FormatReturns(<<"[]">>), <<PointerProbe(buf)>>)
    ELSE ListElements(mem, act, len_child.uns, VecPlan(len_child.uns, act.options),
                      ptr.value.uns, <<PointerProbe(buf)>>, size,
                      NextElement(mem, act, VecPlan(len_child.uns, act.options),
                                  ptr.value.uns))

_format_vec(mem, act) ==
    FormatVecOf(mem, act,
                GetChildMemberWithName(act.v, <<"len">>),
                GetChildMemberWithName(act.v, <<"buf">>),
                providers_find_pointer_in_buf(GetChildMemberWithName(act.v, <<"buf">>)),
                <<"  (len=">> \o IntToStr(GetChildMemberWithName(act.v, <<"len">>).uns)
                    \o <<", cap=">>
                    \o IntToStr(VecCapacity(GetChildMemberWithName(act.v, <<"buf">>)))
                    \o <<")">>)

_get_enum_payload_simple(v) ==
    LET payload == GetChildMemberWithName(v, <<"value">>)
        named == GetChildMemberWithName(payload, <<"__", "0">>)
        first == GetChildAtIndex(payload, 0)
    IN  IF payload.valid
        THEN IF named.valid THEN named ELSE IF first.valid THEN first ELSE payload
        ELSE GetChildMemberWithName(v, <<"__", "0">>)

_get_enum_payload(v, variant_index) ==
    LET variants == GetChildMemberWithName(v, <<"$", "variants", "$">>)
        variant == GetChildMemberWithName(variants,
                       <<"$", "variant", "$">> \o IntToStr(variant_index))
        val_wrapper == GetChildMemberWithName(variant, <<"value">>)
        inner == GetChildMemberWithName(val_wrapper, <<"__", "0">>)
    IN  IF variants.valid /\ variant.valid /\ val_wrapper.valid
        THEN IF inner.valid THEN inner
             ELSE IF Len(val_wrapper.kids) > 0 THEN GetChildAtIndex(val_wrapper, 0)
             ELSE val_wrapper
        ELSE _get_enum_payload_simple(v)

\* the activation calls format_value on the payload and will put the text
\* between label( and )
Enclosing(label, inner, depth, act) ==
    FormatCalls(inner, depth, act.options, [act EXCEPT !.stage = 1, !.label = label])
Enclosed(act) == act.label \o <<"(">> \o act.parts[1] \o <<")">>

\* _format_option without the tests of the discriminant against 0
FormatOptionAsSome(act) ==
    IF act.failed THEN FormatRaises(act.error)
    ELSE IF act.stage = 1 THEN FormatReturns(Enclosed(act))
    ELSE IF _get_enum_payload(act.v, 1).valid
    THEN Enclosing(<<"Some">>, _get_enum_payload(act.v, 1), act.at + 1, act)
    ELSE FormatReturns(<<"Some(?)">>)

\* stage 1: the payload has been formatted
_format_option(act) ==
    LET v == act.v
        depth == act.at
        variants == GetChildMemberWithName(v, <<"$", "variants", "$">>)
        variant1 == GetChildMemberWithName(variants, <<"$", "variant", "$", "1">>)
        table_discr == GetChildMemberWithName(variant1, <<"$", "discr", "$">>)
        val_wrapper == GetChildMemberWithName(variant1, <<"value">>)
        table_inner == GetChildMemberWithName(val_wrapper, <<"__", "0">>)
        discr == GetChildMemberWithName(v, <<"$", "discr", "$">>)
        Some(inner) ==
            IF inner.valid THEN Enclosing(<<"Some">>, inner, depth + 1, act)
            ELSE FormatReturns(<<"Some(?)">>)
    IN  IF act.failed THEN FormatRaises(act.error)
        ELSE IF act.stage = 1 THEN FormatReturns(Enclosed(act))
        ELSE IF EndsWith(v.type, <<"::", "None">>) THEN FormatReturns(<<"None">>)
        ELSE IF EndsWith(v.type, <<"::", "Some">>) THEN Some(_get_enum_payload(v, 1))
        ELSE IF variants.valid /\ variant1.valid /\ table_discr.valid
        THEN IF table_discr.uns = 0 THEN FormatReturns(<<"None">>)
             ELSE Some(IF val_wrapper.valid THEN table_inner ELSE Invalid)
        ELSE IF discr.valid
        THEN IF discr.uns = 0 THEN FormatReturns(<<"None">>)
             ELSE Some(_get_enum_payload_simple(v))
        ELSE IF Truthy(v.summary) THEN FormatReturns(v.summary)
        ELSE _format_default(act)

\* 1 << 62 on the debuggee's 64-bit scale; the unsigned readings of the
\* model stay below 2^31, and a reading at or above 2^30 stands for a
\* capacity with a high bit set
NICHE_THRESHOLD == 2 ^ 30

\* a payload is looked up as wrapper.value.__0
ValuePayload(variant) ==
    GetChildMemberWithName(GetChildMemberWithName(variant, <<"value">>), <<"__", "0">>)

\* stage 1: the payload has been formatted; every call is at depth 0
_format_result(act) ==
    LET v == act.v
        variants == GetChildMemberWithName(v, <<"$", "variants", "$">>)
        variant0 == GetChildMemberWithName(variants, <<"$", "variant", "$", "0">>)
        variant_err == GetChildMemberWithName(variants, <<"$", "variant", "$">>)
        variant1 == GetChildMemberWithName(variants, <<"$", "variant", "$", "1">>)
        table_discr == GetChildMemberWithName(variant0, <<"$", "discr", "$">>)
        discr == GetChildMemberWithName(v, <<"$", "discr", "$">>)
        Variant(label, inner) ==
            IF inner.valid THEN Enclosing(label, inner, 0, act)
            ELSE FormatReturns(label \o <<"(?)">>)
    IN  IF act.failed THEN FormatRaises(act.error)
        ELSE IF act.stage = 1 THEN FormatReturns(Enclosed(act))
        ELSE IF EndsWith(v.type, <<"::", "Ok">>) THEN Variant(<<"Ok">>, _get_enum_payload(v, 0))
        ELSE IF EndsWith(v.type, <<"::", "Err">>)
        THEN Variant(<<"Err">>, _get_enum_payload(v, 1))
        ELSE IF variants.valid /\ variant0.valid /\ table_discr.valid
        THEN IF table_discr.uns >= NICHE_THRESHOLD
             THEN Variant(<<"Ok">>, ValuePayload(variant0))
             ELSE IF ValuePayload(variant_err).valid
             THEN Variant(<<"Err">>, ValuePayload(variant_err))
             ELSE Variant(<<"Err">>, ValuePayload(variant1))
        ELSE IF discr.valid
        THEN Variant(IF discr.uns = 0 THEN <<"Ok">> ELSE <<"Err">>,
                     _get_enum_payload_simple(v))
        ELSE IF Truthy(v.summary) THEN FormatReturns(v.summary)
        ELSE _format_default([act EXCEPT !.at = 0])

_format_box(mem, act) ==
    LET v == act.v
        inner == Dereference(mem, v)
        first == GetChildAtIndex(v, 0)
        deref == Dereference(mem, first)
    IN  IF act.failed THEN FormatRaises(act.error)
        ELSE IF act.stage = 1 THEN FormatReturns(Enclosed(act))
        ELSE IF inner.valid THEN Enclosing(<<"Box">>, inner, 0, act)
        ELSE IF first.valid
        THEN Enclosing(<<"Box">>, IF deref.valid THEN deref ELSE first, 0, act)
        ELSE FormatReturns(<<"Box(?)">>)

\* the allocation behind ptr.pointer, or an invalid value
Pointee(mem, v) ==
    LET named == GetChildMemberWithName(v, <<"ptr">>)
        ptr == IF named.valid THEN named ELSE GetChildAtIndex(v, 0)
    IN  Dereference(mem, GetChildMemberWithName(ptr, <<"pointer">>))

_format_arc(mem, act) ==
    LET v == act.v
        inner == Pointee(mem, v)
        data == GetChildMemberWithName(inner, <<"data">>)
        strong == GetChildMemberWithName(inner, <<"strong">>)
        weak == GetChildMemberWithName(inner, <<"weak">>)
        counts == <<"  (strong=">> \o IntToStr(strong.uns) \o <<", weak=">>
                  \o IntToStr(IF weak.valid THEN weak.uns ELSE 0) \o <<")">>
    IN  IF act.failed THEN FormatRaises(act.error)
        ELSE IF act.stage = 1
        THEN FormatReturns(Enclosed(act)
                           \o (IF act.options.expand /\ strong.valid THEN counts ELSE <<>>))
        ELSE IF inner.valid /\ data.valid THEN Enclosing(<<"Arc">>, data, 0, act)
        ELSE IF Truthy(v.summary) THEN FormatReturns(<<"Arc(">> \o v.summary \o <<")">>)
        ELSE FormatReturns(<<"Arc(...)">>)

_format_rc(mem, act) ==
    LET v == act.v
        inner == Pointee(mem, v)
        value_child == GetChildMemberWithName(inner, <<"value">>)
        strong == GetChildMemberWithName(inner, <<"strong">>)
        counts == <<"  (strong=">> \o IntToStr(strong.uns) \o <<")">>
    IN  IF act.failed THEN FormatRaises(act.error)
        ELSE IF act.stage = 1
        THEN FormatReturns(Enclosed(act)
                           \o (IF act.options.expand /\ strong.valid THEN counts ELSE <<>>))
        ELSE IF inner.valid /\ value_child.valid THEN Enclosing(<<"Rc">>, value_child, 0, act)
        ELSE IF Truthy(v.summary) THEN FormatReturns(<<"Rc(">> \o v.summary \o <<")">>)
        ELSE FormatReturns(<<"Rc(...)">>)

_format_hashmap(act) ==
    LET v == act.v
        base_table == GetChildMemberWithName(GetChildMemberWithName(v, <<"base">>), <<"table">>)
        base_items == GetChildMemberWithName(base_table, <<"items">>)
        items == GetChildMemberWithName(GetChildMemberWithName(v, <<"table">>), <<"items">>)
        Count(n) == <<"{...}  (len=">> \o IntToStr(n) \o <<")">>
    IN  IF base_items.valid
        THEN FormatReturns(IF base_items.uns = 0 THEN <<"{}">> ELSE Count(base_items.uns))
        ELSE IF items.valid THEN FormatReturns(Count(items.uns))
        ELSE FormatReturns(<<"{...}">>)

\* what the activation does next
FormatResume(f, act) ==
    CASE act.fn = "_format_string" -> _format_string(f.heap, act)
      [] act.fn = "_format_vec" -> _format_vec(f.heap, act)
      [] act.fn = "_format_option" -> _format_option(act)
      [] act.fn = "_format_result" -> _format_result(act)
      [] act.fn = "_format_hashmap" -> _format_hashmap(act)
      [] act.fn = "_format_arc" -> _format_arc(f.heap, act)
      [] act.fn = "_format_rc" -> _format_rc(f.heap, act)
      [] act.fn = "_format_box" -> _format_box(f.heap, act)
      [] act.fn = "_format_default" -> _format_default(act)
      [] act.fn = "_format_struct_expanded" -> _format_struct_expanded(act)

\* the activation after the format_value it called has returned or raised r:
\* no formatter has an except clause around its calls of format_value
FormatReceive(act, r) ==
    IF r.raised THEN [act EXCEPT !.failed = TRUE, !.error = r.text]
    ELSE IF act.fn = "_format_struct_expanded"
    THEN [act EXCEPT !.parts = Append(@, Indent(act.at + 1) \o ChildName(act.v, act.stage - 1)
                                          \o <<": ">> \o r.text \o <<",">>)]
    ELSE [act EXCEPT !.parts = Append(@, r.text)]

\* what format_value returns when its formatter has returned text
Prefixed(act, text) == Text(addr_prefix(act.v, act.options) \o text)

\* except Exception: the activation of format_value starts over with
\* _format_default, outside the try
Fallback(act) ==
    [ FormatActivation("_format_default", act.v, act.depth, act.options, act.level)
      EXCEPT !.guarded = FALSE ]

(***************************************************************************)
(* The formatter as a state machine: format_value(target, options=options) *)
(* as the commands call it, at depth 0.  The interpreter's limit on nested *)
(* calls is counted in activations: a call of format_value that would be   *)
(* activation RecursionLimit + 1 raises RecursionError.                    *)
(***************************************************************************)
RecursionLimit == 10
RecursionError == <<"maximum recursion depth exceeded">>

FormatFrames ==
    Frames \cup RingFrames \cup ContainerFrames \cup SequenceFrames \cup TreeFrames
        \cup EnumFrames

InitFormat ==
    /\ BridgeIdle
    /\ pc = "unformatted"
    /\ frame \in FormatFrames
    /\ target \in {frame.vars[i] : i \in 1..Len(frame.vars)}
    /\ options \in OptionSets
    /\ formatted = Idle
    /\ stack = <<>> /\ visited = {} /\ calls = <<>> /\ probes = <<>>
    /\ snapshot = Idle /\ dump = Idle
    /\ NormalizeIdle /\ dispatched = Idle /\ TokenizeIdle /\ ResolveIdle

\* format_value(target, options=options)
Format ==
    /\ pc = "unformatted"
    /\ LET entry == format_value(target, 0, options, 0)
       IN  /\ calls' = <<entry.call>>
           /\ IF entry.immediate
              THEN formatted' = entry.result /\ pc' = "formatted" /\ stack' = <<>>
              ELSE formatted' = formatted /\ pc' = "formatting" /\ stack' = <<entry.act>>
    /\ UNCHANGED <<normVars, dispatched, pathVars, frame, bridgeVars, resolveVars, target, visited,
                   snapshot, dump, probes, options>>

\* the call log and the stack after the call next of the innermost
\* activation, where entry is what the called format_value does first
Called(next, entry) ==
    /\ probes' = probes \o next.probes
    /\ IF Len(stack) >= RecursionLimit
       THEN /\ calls' = Append(calls, [entry.call EXCEPT !.outcome = "overflow"])
            /\ stack' = ReplaceTop(stack, FormatReceive(next.act, Thrown(RecursionError)))
       ELSE /\ calls' = Append(calls, entry.call)
            /\ stack' = IF entry.immediate
                        THEN ReplaceTop(stack, FormatReceive(next.act, entry.result))
                        ELSE Append(ReplaceTop(stack, next.act), entry.act)

CallOf(next) ==
    /\ next.kind = "call"
    /\ Called(next, format_value(next.child, next.depth, next.options, next.act.level + 1))

\* the innermost activation calls format_value
FormatCallStep ==
    /\ pc = "formatting"
    /\ CallOf(FormatResume(frame, Top))
    /\ UNCHANGED <<pc, normVars, dispatched, pathVars, frame, bridgeVars, resolveVars, target, visited,
                   snapshot, dump, formatVars>>

\* the result r of the innermost format_value goes to its caller
Deliver(r) ==
    IF Len(stack) > 1
    THEN /\ stack' = ReplaceTop(Pop(stack), FormatReceive(Caller, r))
         /\ UNCHANGED <<pc, formatted>>
    ELSE /\ stack' = <<>>
         /\ formatted' = r
         /\ pc' = "formatted"

ReturnOf(step) ==
    /\ \/ step.kind = "return"
       \/ step.kind = "raise" /\ ~Top.guarded
    /\ probes' = probes \o step.probes
    /\ Deliver(IF step.kind = "return" THEN Prefixed(Top, step.result.text) ELSE step.result)

\* the innermost format_value returns, or raises what its formatter raised
\* outside the try
FormatReturn ==
    /\ pc = "formatting"
    /\ ReturnOf(FormatResume(frame, Top))
    /\ UNCHANGED <<normVars, dispatched, pathVars, frame, bridgeVars, resolveVars, target, visited, calls,
                   snapshot, dump, options>>

FallbackOf(step) ==
    /\ step.kind = "raise"
    /\ Top.guarded
    /\ stack' = ReplaceTop(stack, Fallback(Top))
    /\ probes' = probes \o step.probes

\* the formatter of the registry raised: format_value goes on with
\* _format_default
FormatFallback ==
    /\ pc = "formatting"
    /\ FallbackOf(FormatResume(frame, Top))
    /\ UNCHANGED <<pc, normVars, dispatched, pathVars, frame, bridgeVars, resolveVars, target, visited,
                   calls, snapshot, dump, formatVars>>

NextFormat == Format \/ FormatCallStep \/ FormatReturn \/ FormatFallback

SpecFormat == InitFormat /\ [][NextFormat]_vars

\* the two consumers of the layout decoders side by side
SpecDecode == (InitSerialize \/ InitFormat) /\ [][NextSerialize \/ NextFormat]_vars


\* a vector as the debugger names it, and the length its len field declares
IsVec(v) == v.valid /\ StartsWith(v.type, StdVec \o <<"<">>)
HasLength(v) == GetChildMemberWithName(v, <<"len">>).valid
DeclaredLength(v) == GetChildMemberWithName(v, <<"len">>).uns
\* the calls of value_to_json at the given depth that went into the value
SerialisedAt(depth) ==
    {k \in 1..Len(calls) : calls[k].depth = depth /\ calls[k].outcome = "serialize"}

(***************************************************************************)
(* C14.  The serializer caps a vector at 100 elements: for a length        *)
(* N <= 100 the result is a list of exactly N serialised elements and no   *)
(* marker; for N > 100 it is exactly 100 serialised elements followed by   *)
(* one textual marker saying that N - 100 more exist.                      *)
(***************************************************************************)
SerializerCapsVec ==
    (Serialized /\ IsVec(target) /\ HasLength(target)) =>
        LET n == DeclaredLength(target)
            shown == Min(n, MaxVecElements)
        IN  /\ ~snapshot.raised
            /\ snapshot.json.t = "list"
            /\ Cardinality(SerialisedAt(1)) = shown
            /\ IF n > MaxVecElements
               THEN /\ Len(snapshot.json.v) = MaxVecElements + 1
                    /\ snapshot.json.v[MaxVecElements + 1] = MoreElements(n - MaxVecElements)
               ELSE Len(snapshot.json.v) = n

(***************************************************************************)
(* C15.  A valid value that value_to_json is entered for at a depth above  *)
(* 20 gives the __truncated__ marker and no serialiser is run on it, and   *)
(* every call a serialiser makes is one level deeper than the serialiser   *)
(* itself: no value more than 21 levels below the root is gone into.       *)
(***************************************************************************)
DepthGuard ==
    pc \in {"serializing", "serialized", "dumping", "dumped"} =>
        /\ \A k \in 1..Len(calls) :
              /\ calls[k].depth <= MaxSerializeDepth + 1
              /\ calls[k].depth > MaxSerializeDepth =>
                     calls[k].outcome \in {"truncated", "invalid"}
        /\ \A i \in 1..Len(stack) :
              /\ stack[i].depth <= MaxSerializeDepth
              /\ i > 1 => stack[i].depth = stack[i - 1].depth + 1

\* a value 21 levels below the root has been replaced by the marker
DepthGuardWitness ==
    /\ pc = "serialized"
    /\ \E k \in 1..Len(calls) :
          calls[k].depth = MaxSerializeDepth + 1 /\ calls[k].outcome = "truncated"
    /\ ~snapshot.raised

(***************************************************************************)
(* The tagged objects: what _serialize_option, _serialize_result and       *)
(* _serialize_smart_pointer are about to return.                           *)
(***************************************************************************)
TaggedReturn ==
    /\ pc \in {"serializing", "dumping"}
    /\ stack # <<>>
    /\ Top.fn \in {"_serialize_option", "_serialize_result", "_serialize_smart_pointer"}
    /\ Resume(frame, Top).kind = "return"
    /\ ~Resume(frame, Top).result.raised
Tagged == Resume(frame, Top).result.json
OfEnum == Top.fn \in {"_serialize_option", "_serialize_result"}
TagKinds ==
    IF Top.fn = "_serialize_option" THEN {<<"option">>}
    ELSE IF Top.fn = "_serialize_result" THEN {<<"result">>}
    ELSE {<<"box">>, <<"arc">>, <<"rc">>}
TagVariants == {<<"Some">>, <<"None">>, <<"Ok">>, <<"Err">>}
HasTag(json) ==
    /\ IsDict(json)
    /\ HasKey(json, <<"__ferrumpy_kind__">>)
    /\ GetItem(json, <<"__ferrumpy_kind__">>).t = "str"
    /\ GetItem(json, <<"__ferrumpy_kind__">>).v \in TagKinds
\* __inner__ is what the call of value_to_json on the payload returned (for
\* a pointer, possibly its 'value' entry), and null when no call was made
HoldsPayload(json) ==
    /\ HasKey(json, Inner)
    /\ Top.items = <<>> => GetItem(json, Inner) = JNull
    /\ Top.items # <<>> /\ OfEnum => GetItem(json, Inner) = Top.items[1]
    /\ Top.items # <<>> /\ ~OfEnum =>
           \/ GetItem(json, Inner) = Top.items[1]
           \/ /\ IsDict(Top.items[1]) /\ HasKey(Top.items[1], <<"value">>)
              /\ GetItem(json, Inner) = GetItem(Top.items[1], <<"value">>)
\* __summary__ stands in the place of __inner__ and holds the summary text
HoldsSummary(json) ==
    /\ ~HasKey(json, Inner)
    /\ HasKey(json, Summary)
    /\ GetItem(json, Summary) = JStr(SummaryOrEmpty(Top.v))

Dumped == pc = "dumped"
Variables == GetItem(dump, <<"variables">>)
Types == GetItem(dump, <<"types">>)
\* the variables serialize_frame does not skip
Shown ==
    {k \in 1..Len(frame.vars) :
        frame.vars[k].valid /\ frame.vars[k].name # None /\ ~Internal(frame.vars[k].name)}
Keys(json) == {json.v[i].key : i \in 1..Len(json.v)}
IsErrorMarker(json) ==
    IsDict(json) /\ Len(json.v) = 1 /\ json.v[1].key = <<"__error__">> /\ json.v[1].json.t = "str"

NoFrameWitness == Dumped /\ frame = NoFrame /\ Variables.v = <<>>

(***************************************************************************)
(* What a finished format_value(target, options=options) returned.         *)
(***************************************************************************)
Formatted == pc = "formatted"
IsOption(v) == v.valid /\ selected_formatter(v.type) = "_format_option"
VariantSuffix(v) == EndsWith(v.type, <<"::", "None">>) \/ EndsWith(v.type, <<"::", "Some">>)
\* the discriminant of the $variants$ table and the flat one
TableDiscr(v) ==
    GetChildMemberWithName(
        GetChildMemberWithName(GetChildMemberWithName(v, <<"$", "variants", "$">>),
                               <<"$", "variant", "$", "1">>),
        <<"$", "discr", "$">>)
FlatDiscr(v) == GetChildMemberWithName(v, <<"$", "discr", "$">>)
\* the wrapper of the payload, in the table or flat
TableWrapper(v) ==
    GetChildMemberWithName(
        GetChildMemberWithName(GetChildMemberWithName(v, <<"$", "variants", "$">>),
                               <<"$", "variant", "$", "1">>),
        <<"value">>)
FlatWrapper(v) == GetChildMemberWithName(v, <<"value">>)
DiscrZeroNoWrapper(v) ==
    /\ IsOption(v) /\ ~VariantSuffix(v)
    /\ \/ TableDiscr(v).valid /\ TableDiscr(v).uns = 0 /\ ~TableWrapper(v).valid
       \/ ~TableDiscr(v).valid /\ FlatDiscr(v).valid /\ FlatDiscr(v).uns = 0
              /\ ~FlatWrapper(v).valid

AbsentFlatWitness ==
    /\ Formatted /\ DiscrZeroNoWrapper(target)
    /\ ~TableDiscr(target).valid /\ options.show_addr
    /\ formatted.text = <<"@ 0x">> \o IntToHex(MaybeAddr) \o <<" ", "None">>


(***************************************************************************)
(* A _format_vec that went through its elements and is about to return    *)
(* the list.                                                               *)
(***************************************************************************)
VecReturn ==
    /\ pc = "formatting" /\ stack # <<>>
    /\ Top.fn = "_format_vec" /\ ~Top.failed /\ Top.stage > 0
    /\ FormatResume(frame, Top).kind = "return"
ElisionMarker(n) == <<"... (">> \o IntToStr(n) \o <<" more)">>
IsElision(text) == StartsWith(text, <<"... (">>)
\* the format_value calls the innermost activation has made so far
CallsOfTop ==
    {k \in 1..Len(calls) :
        /\ calls[k].level = Top.level + 1
        /\ \A j \in (k + 1)..Len(calls) : calls[j].level > Top.level}

(***************************************************************************)
(* C12.  For a vector of length N above truncate_at, the list _format_vec  *)
(* renders has exactly truncate_at element entries and exactly one elision *)
(* marker, and the marker says N - truncate_at more.                       *)
(***************************************************************************)
TruncatedList ==
    (VecReturn /\ DeclaredLength(Top.v) > Top.options.truncate_at) =>
        LET n == DeclaredLength(Top.v)
            cap == Top.options.truncate_at
            entries == Top.parts
            markers == {k \in 1..Len(entries) : IsElision(entries[k])}
            text == FormatResume(frame, Top).result.text
        IN  /\ Len(entries) = cap + 1
            /\ Cardinality(markers) = 1
            /\ \A k \in markers : entries[k] = ElisionMarker(n - cap)
            /\ Cardinality(CallsOfTop) = cap
            /\ text = <<"[">> \o JoinComma(entries) \o <<"]">>
                      \o ( IF Top.options.expand
                           THEN <<"  (len=">> \o IntToStr(n) \o <<", cap=">>
                                \o IntToStr(VecCapacity(GetChildMemberWithName(Top.v, <<"buf">>)))
                                \o <<")">>
                           ELSE <<>> )

\* a Vec<i32> of TruncateAt + MaxExtra elements: the marker says MaxExtra more
TruncatedListWitness ==
    /\ VecReturn
    /\ Top.v.addr = ItemsAddr
    /\ DeclaredLength(Top.v) = TruncateAt + MaxExtra
    /\ Len(Top.parts) = TruncateAt + 1
    /\ Top.parts[TruncateAt - ShowTruncateEnd + 1] = ElisionMarker(MaxExtra)
    /\ Top.parts[TruncateAt + 1] = IntToStr(TruncateAt + MaxExtra - 1)


(***************************************************************************)
(* The element values a decoder of the vector target has constructed: the  *)
(* CreateValueFromAddress entries of the access log, while and after       *)
(* value_to_json(target) or format_value(target) runs.                     *)
(***************************************************************************)
DecodingVec ==
    /\ pc \in {"serializing", "serialized", "formatting", "formatted"}
    /\ IsVec(target) /\ HasLength(target)
ByFormatter == pc \in {"formatting", "formatted"}
Created == {k \in 1..Len(probes) : probes[k].op = "create"}
DataBase == providers_find_pointer_in_buf(GetChildMemberWithName(target, <<"buf">>)).value.uns
ElementCap == IF ByFormatter THEN options.truncate_at ELSE MaxVecElements
AtElement(k) == probes[k].addr = DataBase + probes[k].n * target.elem.size

(***************************************************************************)
(* C13 as stated.  Elements of a vector of length N are constructed only   *)
(* for indices in [0, min(N, cap)), each at base + i * element_size, where *)
(* cap is truncate_at for the formatter and 100 for the serializer.        *)
(***************************************************************************)
ElementsWithinCap ==
    DecodingVec =>
        \A k \in Created :
            /\ 0 <= probes[k].n /\ probes[k].n < Min(DeclaredLength(target), ElementCap)
            /\ AtElement(k)

(***************************************************************************)
(* C13, amended.  Elements are constructed only for indices in [0, N), at  *)
(* most min(N, cap) of them and none twice, each at base + i *             *)
(* element_size: the serializer constructs indices below min(N, 100); the  *)
(* formatter constructs every index when N <= truncate_at, and otherwise   *)
(* the first truncate_at - show_truncate_end and the last                  *)
(* show_truncate_end indices.                                              *)
(***************************************************************************)
ElementsWithinLength ==
    DecodingVec =>
        LET n == DeclaredLength(target)
        IN  /\ Cardinality(Created) <= Min(n, ElementCap)
            /\ \A k \in Created :
                  /\ 0 <= probes[k].n /\ probes[k].n < n
                  /\ AtElement(k)
                  /\ \A j \in Created : probes[j].n = probes[k].n => j = k
                  /\ ~ByFormatter => probes[k].n < Min(n, MaxVecElements)
                  /\ (ByFormatter /\ n > options.truncate_at) =>
                        \/ probes[k].n < options.truncate_at - options.show_truncate_end
                        \/ probes[k].n >= n - options.show_truncate_end

\* the formatter has shown a Vec<i32> of MaxVecElements + MaxExtra elements:
\* the last element it constructed is the last of the vector
ElementsWitness ==
    /\ DecodingVec /\ pc = "formatted"
    /\ DeclaredLength(target) = MaxVecElements + MaxExtra
    /\ Cardinality(Created) = TruncateAt
    /\ \E k \in Created :
          /\ probes[k].n = MaxVecElements + MaxExtra - 1
          /\ probes[k].addr = ItemsHeap + ItemSize * (MaxVecElements + MaxExtra - 1)

\* the serializer has gone through the same vector: MaxVecElements elements
ElementsSerializedWitness ==
    /\ DecodingVec /\ pc = "serialized"
    /\ DeclaredLength(target) = MaxVecElements + MaxExtra
    /\ {probes[k].n : k \in Created} = 0..(MaxVecElements - 1)


(***************************************************************************)
(* C11.  For a vector whose len field is 0 the formatter returns [] and    *)
(* the serializer the empty list, and neither resolves the data pointer,   *)
(* reads memory of the debuggee or constructs an element.                  *)
(***************************************************************************)
EmptyVecUntouched ==
    (pc \in {"serialized", "formatted"} /\ IsVec(target) /\ HasLength(target)
        /\ DeclaredLength(target) = 0) =>
        /\ probes = <<>>
        /\ pc = "serialized" => snapshot = Return(JList(<<>>))
        /\ pc = "formatted" =>
              /\ ~formatted.raised
              /\ StartsWith(formatted.text, addr_prefix(target, options) \o <<"[]">>)
              /\ ~options.expand => formatted.text = addr_prefix(target, options) \o <<"[]">>

\* the same for the vectors whose element type is not String
EmptyVecOfNumbersUntouched ==
    (Contains(target.type, StdString) \/ EmptyVecUntouched)


(***************************************************************************)
(* C20.  In deep mode a value nested more than max_depth calls of          *)
(* format_value below the top-level value is rendered as ..., whatever the *)
(* containers on the way to it, so the formatter comes to an end on a      *)
(* cyclic structure without running into the interpreter's limit.          *)
(***************************************************************************)
DepthCeiling ==
    pc \in {"formatting", "formatted"} =>
        /\ \A k \in 1..Len(calls) :
              (options.deep /\ calls[k].level > options.max_depth) =>
                  calls[k].outcome \in {"ellipsis", "invalid"}
        /\ \A k \in 1..Len(calls) : OfRing => calls[k].outcome # "overflow"

(***************************************************************************)
(* The variables of a frame are on the stack; what they point to is in the *)
(* heap of the frame.                                                      *)
(***************************************************************************)
StackAddrs == {frame.vars[i].addr : i \in {k \in 1..Len(frame.vars) : frame.vars[k].valid}}
HeapAddrs == DOMAIN frame.heap

(***************************************************************************)
(* C21.  The cycle guard tracks heap-resident pointer values only: the     *)
(* load address of a value on the stack is never put into the visited set. *)
(***************************************************************************)
StackNeverTracked ==
    pc \in {"serializing", "serialized", "dumping", "dumped"} =>
        visited \cap StackAddrs = {}


(***************************************************************************)
(* The field segments resolve_path has applied, and the one it failed at.  *)
(***************************************************************************)
KnownWrappers ==
    { <<"alloc", "::", "boxed", "::", "Box", "<">>, <<"alloc", "::", "sync", "::", "Arc", "<">>,
      <<"alloc", "::", "rc", "::", "Rc", "<">>, <<"core", "::", "cell", "::", "Ref", "<">>,
      <<"core", "::", "cell", "::", "RefMut", "<">> }
IsKnownWrapper(v) == \E q \in KnownWrappers : StartsWith(v.type, q)
Direct(v, name) == GetChildMemberWithName(v, name)
ThroughPointer(v, name) == GetChildMemberWithName(Dereference(frame.heap, v), name)
FieldSteps == {i \in 2..Len(trail) : todo[i].kind = "IdentSegment"}
FailedAtField ==
    /\ pc = "raised" /\ todo # <<>> /\ trail # <<>>
    /\ todo[position].kind = "IdentSegment"

(***************************************************************************)
(* C22.  A field segment is resolved by looking the name up among the      *)
(* children; only if that finds nothing and the type of the value is one   *)
(* of Box, Arc, Rc, Ref, RefMut is the value dereferenced and the name     *)
(* looked up once more; if the field is absent there too the resolver      *)
(* raises an error that names the field and the type of the value that was *)
(* not dereferenced.                                                       *)
(***************************************************************************)
FieldLookup ==
    /\ pc \in {"resolving", "returned"} =>
          \A i \in FieldSteps :
              IF Direct(trail[i - 1], todo[i].name).valid
              THEN trail[i] = Direct(trail[i - 1], todo[i].name)
              ELSE /\ IsKnownWrapper(trail[i - 1])
                   /\ ThroughPointer(trail[i - 1], todo[i].name).valid
                   /\ trail[i] = ThroughPointer(trail[i - 1], todo[i].name)
    /\ FailedAtField =>
          /\ ~Direct(reached, todo[position].name).valid
          /\ IsKnownWrapper(reached) => ~ThroughPointer(reached, todo[position].name).valid
          /\ resolved = PathResolutionError(<<"Field '">> \o todo[position].name
                            \o <<"' not found in type '">> \o reached.type \o <<"'">>)

\* boxed_user.name: the Box has no child of that name, the User behind it has
FieldLookupWitness ==
    /\ pc = "returned"
    /\ todo = <<IdentSegment(<<"boxed_user">>), IdentSegment(<<"name">>)>>
    /\ ~Direct(trail[1], <<"name">>).valid
    /\ resolved.value = ThroughPointer(trail[1], <<"name">>)
    /\ resolved.value.addr >= BoxedAddr

\* boxed_user.0.name: the raw pointer inside the Box is not dereferenced
FieldAbsentWitness ==
    /\ FailedAtField
    /\ todo = <<IdentSegment(<<"boxed_user">>), IdentSegment(<<"__", "0">>),
                IdentSegment(<<"name">>)>>
    /\ ThroughPointer(reached, <<"name">>).valid
    /\ resolved.message = <<"Field '", "name", "' not found in type '">> \o PointerToUser \o <<"'">>


(***************************************************************************)
(* The two lookups of the data pointer on one buffer.  A buffer has the    *)
(* chain inner.ptr.pointer.pointer up to some field (inner: how many of    *)
(* its fields are there, 4: all), the chain ptr.pointer.pointer up to some *)
(* field (ptr), a field pointer of its own or not, and its fields in the   *)
(* order given or in the opposite one.  The value at the end of a complete *)
(* chain is a pointer to data of its own.                                  *)
(***************************************************************************)
BufferAddr == 900
ChainInner == <<"inner", "ptr", "pointer", "pointer">>
ChainPtr == <<"ptr", "pointer", "pointer">>
ChainPointer == <<"pointer">>
DataOf(names) == HeapBase + NodeStride * Len(names)

\* the first count fields of the chain names: the last one is the pointer
\* when the chain is complete, or, when short is set, when it stops one
\* field early; otherwise it is a wrapper with nothing inside
ChainUpTo(names, count, short) ==
    LET last == IF count = Len(names) \/ (short /\ count = Len(names) - 1)
                THEN Scalar(FieldName(names[count]), PointerToUser, BufferAddr,
                            IntToStr(DataOf(Take(names, count))),
                            DataOf(Take(names, count)))
                ELSE SBValue(FieldName(names[count]), RawVecType, BufferAddr, <<>>)
    IN  IF count = 0 THEN <<>>
        ELSE << Wrapped(Take(names, count - 1), BufferAddr, last) >>

BufferShapes == [inner : 0..Len(ChainInner), ptr : 0..Len(ChainPtr), pointer : BOOLEAN,
                 reversed : BOOLEAN]

Buffer(w) ==
    LET fields == ChainUpTo(ChainInner, w.inner, FALSE) \o ChainUpTo(ChainPtr, w.ptr, TRUE)
                  \o ChainUpTo(ChainPointer, IF w.pointer THEN 1 ELSE 0, FALSE)
    IN  SBValue(<<"buf">>, RawVecType, BufferAddr,
                IF w.reversed THEN [k \in 1..Len(fields) |-> fields[Len(fields) + 1 - k]]
                ELSE fields)

Buffers == {Buffer(w) : w \in BufferShapes}

InitPointer ==
    /\ BridgeIdle
    /\ pc = "buffer"
    /\ target \in Buffers
    /\ snapshot = Idle /\ dump = Idle
    /\ stack = Idle /\ visited = Idle /\ calls = Idle /\ probes = Idle /\ FormatIdle
    /\ NormalizeIdle /\ dispatched = Idle /\ TokenizeIdle /\ frame = Idle /\ ResolveIdle

\* providers._find_pointer_in_buf(buf)
ProvidersFindPointer ==
    /\ pc = "buffer"
    /\ snapshot' = providers_find_pointer_in_buf(target)
    /\ pc' = "provided"
    /\ UNCHANGED <<normVars, dispatched, pathVars, frame, bridgeVars, resolveVars, target, stack, visited,
                   calls, dump, probes, formatVars>>

\* path_resolver._find_pointer_in_buf(buf)
ResolverFindPointer ==
    /\ pc = "provided"
    /\ dump' = _find_pointer_in_buf(target)
    /\ pc' = "found"
    /\ UNCHANGED <<normVars, dispatched, pathVars, frame, bridgeVars, resolveVars, target, stack, visited,
                   calls, snapshot, probes, formatVars>>

NextPointer == ProvidersFindPointer \/ ResolverFindPointer

SpecPointer == InitPointer /\ [][NextPointer]_vars

\* the value at the end of the chain of field names: not valid as soon as a
\* field on the way is missing
RECURSIVE Follow(_, _)
Follow(v, names) ==
    IF names = <<>> THEN v ELSE Follow(GetChildMemberWithName(v, <<Head(names)>>), Tail(names))
ClaimedChains == <<ChainInner, ChainPtr, <<"ptr", "pointer">>, ChainPointer>>
Resolving(buf) == {i \in 1..Len(ClaimedChains) : Follow(buf, ClaimedChains[i]).valid}

(***************************************************************************)
(* C23.  The lookup of the data pointer tries inner.ptr.pointer.pointer,   *)
(* ptr.pointer.pointer, ptr.pointer and pointer in this order and returns  *)
(* the value at the end of the first chain whose fields all exist, None    *)
(* only when there is no such chain; the copy of the path resolver and the *)
(* copy of the providers return the same for every buffer.                 *)
(***************************************************************************)
PointerLookup ==
    /\ pc \in {"provided", "found"} =>
          IF Resolving(target) = {} THEN ~snapshot.found
          ELSE /\ snapshot.found
               /\ snapshot.value = Follow(target, ClaimedChains[Least(Resolving(target))])
    /\ pc = "found" => dump = snapshot

\* a buffer with ptr.pointer and pointer but only a part of the newest
\* chain: both lookups return the pointer behind ptr.pointer
PointerLookupWitness ==
    /\ pc = "found"
    /\ Resolving(target) = {3, 4}
    /\ Follow(target, <<"inner", "ptr">>).valid
    /\ dump.found /\ dump.value.uns = DataOf(<<"ptr", "pointer">>)

\* a buffer none of whose chains is complete
NoPointerWitness ==
    /\ pc = "found"
    /\ Len(target.kids) = 2
    /\ ~snapshot.found /\ ~dump.found


(***************************************************************************)
(* The top-level parameters of a parameter list, read off the text: the    *)
(* pieces between the commas that have as many < as > before them.         *)
(***************************************************************************)
AngleDepth(s, i) ==
    Cardinality({j \in 1..(i - 1) : s[j] = "<"}) - Cardinality({j \in 1..(i - 1) : s[j] = ">"})
TopCommas(s) == {i \in 1..Len(s) : s[i] = "," /\ AngleDepth(s, i) = 0}
PieceEnds(s) == TopCommas(s) \cup {0, Len(s) + 1}
PieceEnd(s, j) == CHOOSE c \in PieceEnds(s) : Cardinality({d \in PieceEnds(s) : d < c}) = j
TopParams(s) ==
    [j \in 1..(Cardinality(PieceEnds(s)) - 1) |->
        Strip(SubSeq(s, PieceEnd(s, j - 1) + 1, PieceEnd(s, j) - 1))]
\* the parameter list of a generic signature once its allocators are gone
GenericSig == GenericMatches(_remove_allocators(lldb_type))
ParamsIn == TopParams(GenericInner(_remove_allocators(lldb_type)))
ParamsOut == TopParams(GenericInner(canon))
DeeplyNested ==
    <<"Vec", "<", "Vec", "<", "i32", ">", ">", ",", " ", "HashMap", "<", "String", ",", " ",
      "Vec", "<", "i64", ">", ">">>

(***************************************************************************)
(* C24.  A parameter list is split only at the commas outside every nested *)
(* generic; each parameter is normalised on its own and the parameters are *)
(* joined again with ", " in their order, so the normalised signature has  *)
(* as many top-level parameters as the signature, in the same order.       *)
(***************************************************************************)
GenericParamsKept ==
    /\ _split_generic_params(DeeplyNested)
           = << <<"Vec", "<", "Vec", "<", "i32", ">", ">">>,
                <<"HashMap", "<", "String", ",", " ", "Vec", "<", "i64", ">", ">">> >>
    /\ (pc \in {"normalized", "renormalized"} /\ GenericSig) =>
          /\ _split_generic_params(GenericInner(_remove_allocators(lldb_type))) = ParamsIn
          /\ GenericMatches(canon)
          /\ Len(ParamsOut) = Len(ParamsIn)
          /\ \A j \in 1..Len(ParamsIn) : ParamsOut[j] = normalize_type_name(ParamsIn[j])
          /\ GenericInner(canon) = JoinComma(ParamsOut)

\* HashMap<String, Result<int, String>, RandomState>: two parameters, the
\* second with a comma of its own
GenericParamsWitness ==
    /\ pc = "normalized"
    /\ lldb_type = StdHashMap \o <<"<">> \o StdString \o <<",", " ">>
                       \o StdResult \o <<"<", "int", ",", " ">> \o StdString \o <<">">>
                       \o <<",", " ">> \o HashRandomState \o <<">">>
    /\ Len(ParamsIn) = 2
    /\ canon = <<"HashMap", "<", "String", ",", " ", "Result", "<", "i32", ",", " ", "String",
                 ">", ">">>



(***************************************************************************)
(* Cycle markers against the values visited before them.                   *)
(***************************************************************************)
\* the calls of the log that ended in a __cycle__ marker
CycleCalls == { k \in 1..Len(calls) : calls[k].outcome = "cycle" }
\* an earlier call of the same serialisation on the same value
VisitedBefore(k) ==
    \E j \in 1..(k - 1) :
        calls[j].addr = calls[k].addr /\ calls[j].type = calls[k].type

\* C25: value_to_json emits a __cycle__ marker for a value only if that same
\* value was visited earlier in the same serialisation; a value visited for
\* the first time never gets the marker because it shares the load address
\* of the value that encloses it.
CycleOnlyOnRevisit ==
    Serialized => \A k \in CycleCalls : VisitedBefore(k)


(***************************************************************************)
(* serialize_frame against value_to_json on one variable alone.            *)
(***************************************************************************)
\* the entry of the variables map for the variable value_to_json was first
\* run on alone, with a visited set of its own
TargetShown == \E k \in Shown : frame.vars[k] = target
TargetEntry == GetItem(Variables, target.name)

\* C26: in what serialize_frame returns, the entry of each variable is what
\* value_to_json returns for that variable alone with a fresh visited set,
\* whichever variables of the frame were serialised before it.
VariableAlone ==
    (Dumped /\ TargetShown) =>
        IF snapshot.raised THEN TargetEntry = ErrorMarker(snapshot.error)
        ELSE TargetEntry = snapshot.json


(***************************************************************************)
(* The variant _format_result chooses, by the way the discriminant is      *)
(* exposed.                                                                *)
(***************************************************************************)
EnumShape == CHOOSE w \in EnumShapes : EnumFrame(w) = frame
IsOutcome == frame \in EnumFrames /\ target.name = <<"outcome">>
\* the discriminant of the table of a Result
ResultTableDiscr(v) ==
    GetChildMemberWithName(
        GetChildMemberWithName(GetChildMemberWithName(v, <<"$", "variants", "$">>),
                               <<"$", "variant", "$", "0">>),
        <<"$", "discr", "$">>)
\* the same Result with the discriminant d as a flat top-level field
FlatTwin(v, d) ==
    Enum(TRUE, v.name, ResultType, v.addr,
         [encoding |-> "flat", variant |-> Min(d, 1), wrapper |-> EnumShape.wrapper,
          stray |-> d > 1])
\* Ok or Err, as _format_result chose it before it formatted the payload
ChosenVariant(step) ==
    IF step.kind = "call" THEN step.act.label ELSE <<step.result.text[1]>>
\* Ok or Err, as the finished format_value rendered it
RenderedVariant == <<Drop(formatted.text, Len(addr_prefix(target, options)))[1]>>

\* C28: a Result whose $variants$ table discriminant is d is rendered with
\* the same variant (Ok or Err) as a Result whose flat top-level $discr$ is d.
ResultVariantByValue ==
    (Formatted /\ IsOutcome /\ EnumShape.encoding = "variants") =>
        RenderedVariant =
            ChosenVariant(_format_result(
                FormatActivation("_format_result",
                                 FlatTwin(target, ResultTableDiscr(target).uns),
                                 0, options, 0)))


(***************************************************************************)
(* The variant of an Option of the $variants$ table, as the formatter and  *)
(* as the serializer decide it.                                            *)
(***************************************************************************)
IsMaybe == frame \in EnumFrames /\ target.name = <<"maybe">>
HasTable(v) == GetChildMemberWithName(v, <<"$", "variants", "$">>).valid
\* the text of the finished format_value behind the address
Rendered == Drop(formatted.text, Len(addr_prefix(target, options)))
RenderedNone == Rendered = <<"None">>
RenderedSome == Rendered # <<>> /\ Rendered[1] \in {"Some", "Some(?)"}
\* __variant__ of what _serialize_option returns: Some when it goes into the
\* payload, else the variant of the object it returns at once
SerializedVariant(step) ==
    IF step.kind = "call" THEN <<"Some">>
    ELSE GetItem(step.result.json, <<"__variant__">>).v
OptionStep == _serialize_option(Activation("_serialize_option", target, 0))

\* C27: for an Option exposed through the $variants$ table the formatter
\* renders None exactly when the serializer emits the variant None, and
\* Some(...) exactly when the serializer emits the variant Some, whatever the
\* $discr$ fields hold.
OptionVariantsAgree ==
    (Formatted /\ IsMaybe /\ HasTable(target)) =>
        /\ RenderedNone <=> SerializedVariant(OptionStep) = <<"None">>
        /\ RenderedSome <=> SerializedVariant(OptionStep) = <<"Some">>


(***************************************************************************)
(* The arguments of a signature that are not a default allocator or hasher.*)
(***************************************************************************)
IsAllocatorArg(p) == p \in AllocatorNames
NotAllocatorArg(p) == ~IsAllocatorArg(p)
\* the top-level arguments of the signature s, the allocators left out
KeptArgs(s) == SelectSeq(TopParams(GenericInner(s)), NotAllocatorArg)
\* an argument whose name begins with Global and goes on
GlobalPrefixed(s) ==
    \E i \in 1..(Len(s) - 1) : s[i] = "Global" /\ IsWord(s[i + 1])
GlobalConfigMap == <<"HashMap", "<", "K", ",", " ", "Global", "Config", ">">>

\* C29: only the arguments that are the default allocator or hasher are
\* removed; the normalised signature has the other arguments of the
\* signature, each normalised, in the same order, also when the name of an
\* argument begins with Global, as in HashMap<K, GlobalConfig>.
OnlyAllocatorsRemoved ==
    /\ normalize_type_name(GlobalConfigMap) = GlobalConfigMap
    /\ (pc \in {"normalized", "renormalized"} /\ GenericMatches(lldb_type)) =>
          /\ GenericMatches(canon)
          /\ Len(ParamsOut) = Len(KeptArgs(lldb_type))
          /\ \A j \in 1..Len(ParamsOut) :
                ParamsOut[j] = normalize_type_name(KeptArgs(lldb_type)[j])

\* the same on the signatures that have no name beginning with Global
AllocatorsOnlyWithoutGlobalPrefix ==
    (pc \in {"normalized", "renormalized"} /\ GenericMatches(lldb_type)
        /\ ~GlobalPrefixed(lldb_type)) =>
          /\ GenericMatches(canon)
          /\ Len(ParamsOut) = Len(KeptArgs(lldb_type))
          /\ \A j \in 1..Len(ParamsOut) :
                ParamsOut[j] = normalize_type_name(KeptArgs(lldb_type)[j])


(***************************************************************************)
(* bridge.py ServerConnection: the subprocess of ferrumpy-server and the   *)
(* requests written to its stdin.  The environment chooses whether the     *)
(* server binary is found, what the server answers to a request and        *)
(* whether the subprocess exits in time when it is terminated.             *)
(***************************************************************************)
MaxCalls == 4

\* the line the server answers with: {"ok": true}, {"result": {"ok": true}},
\* {"result": {...}} with the completions / type_name / value asked for,
\* {"error": ...}, or no line at all (the server closed the connection)
Replies == {"ok", "result_ok", "result", "error", "closed"}

\* ServerConnection.__init__
NewConnection == [_process |-> "None", _request_id |-> 0, _initialized |-> FALSE]

\* how a method ended: conn and written are the connection and the server's
\* stdin after it, outcome what it returned or "raised"
Ended(conn, written, outcome) == [conn |-> conn, written |-> written, outcome |-> outcome]

\* _send_request(method, params), the server answering with reply
_send_request(conn, written, method, reply) ==
    IF conn._process = "None"
    THEN [conn |-> conn, written |-> written, raised |-> TRUE, response |-> "closed"]
    ELSE [ conn |-> [conn EXCEPT !._request_id = @ + 1],
           written |-> Append(written, [id |-> conn._request_id + 1, method |-> method]),
           raised |-> reply = "closed",
           response |-> reply ]

\* start(); found: _find_server_binary finds the binary
start(conn, written, found) ==
    IF conn._process # "None" THEN Ended(conn, written, "None")
    ELSE IF ~found THEN Ended(conn, written, "raised")
    ELSE Ended([conn EXCEPT !._process = "Popen"], written, "None")

\* stop(); exited: the subprocess is gone within the 5 seconds of wait
stop(conn, written, reply, exited) ==
    LET sent == _send_request(conn, written, "shutdown", reply)
    IN  IF conn._process = "None" THEN Ended(conn, written, "None")
        ELSE IF ~exited THEN Ended(sent.conn, sent.written, "raised")
        ELSE Ended([sent.conn EXCEPT !._process = "None", !._initialized = FALSE],
                   sent.written, "None")

\* initialize(project_root)
initialize(conn, written, found, reply) ==
    LET started == start(conn, written, found)
        sent == _send_request(started.conn, written, "initialize", reply)
    IN  IF started.outcome = "raised" THEN started
        ELSE IF sent.raised THEN Ended(sent.conn, sent.written, "raised")
        ELSE IF sent.response \in {"ok", "result_ok"}
        THEN Ended([sent.conn EXCEPT !._initialized = TRUE], sent.written, "True")
        ELSE Ended(sent.conn, sent.written, "False")

\* complete, type_info and eval: the request of the method, and what comes
\* back for each answer; "empty" is [] for complete and None for the others
Query(conn, written, method, reply, answers) ==
    LET sent == _send_request(conn, written, method, reply)
    IN  IF ~conn._initialized THEN Ended(conn, written, "empty")
        ELSE IF sent.raised THEN Ended(sent.conn, sent.written, "raised")
        ELSE IF sent.response \in answers THEN Ended(sent.conn, sent.written, sent.response)
        ELSE Ended(sent.conn, sent.written, "empty")

complete(conn, written, reply) == Query(conn, written, "complete", reply, {"result"})
type_info(conn, written, reply) == Query(conn, written, "type", reply, {"result"})
eval(conn, written, reply) == Query(conn, written, "eval", reply, {"result", "error"})

InitBridge ==
    /\ pc = "connection"
    /\ connection = NewConnection
    /\ stdin = <<>>
    /\ history = <<>>
    /\ NormalizeIdle /\ dispatched = Idle /\ TokenizeIdle /\ frame = Idle /\ ResolveIdle
    /\ SerializeIdle

\* the call has ended as end
Made(call, end) ==
    /\ Len(history) < MaxCalls
    /\ connection' = end.conn
    /\ stdin' = end.written
    /\ history' = Append(history, [call |-> call, outcome |-> end.outcome,
                                   written |-> Len(end.written)])
    /\ UNCHANGED <<pc, normVars, dispatched, pathVars, frame, resolveVars, serializeVars>>

Start == \E found \in BOOLEAN : Made("start", start(connection, stdin, found))
Stop ==
    \E reply \in Replies, exited \in BOOLEAN :
        Made("stop", stop(connection, stdin, reply, exited))
Initialize ==
    \E found \in BOOLEAN, reply \in Replies :
        Made("initialize", initialize(connection, stdin, found, reply))
Complete == \E reply \in Replies : Made("complete", complete(connection, stdin, reply))
TypeInfo == \E reply \in Replies : Made("type_info", type_info(connection, stdin, reply))
Eval == \E reply \in Replies : Made("eval", eval(connection, stdin, reply))

NextBridge == Start \/ Stop \/ Initialize \/ Complete \/ TypeInfo \/ Eval

SpecBridge == InitBridge /\ [][NextBridge]_vars

(***************************************************************************)
(* The calls made on the connection, read off the history.                 *)
(***************************************************************************)
Queries == {"complete", "type_info", "eval"}
WrittenBefore(k) == IF k = 1 THEN 0 ELSE history[k - 1].written
\* call k wrote a request to the server
Sent(k) == history[k].written > WrittenBefore(k)
\* the most recent initialize before call k returned True and no stop came after it
Ready(k) ==
    \E j \in 1..(k - 1) :
        /\ history[j].call = "initialize" /\ history[j].outcome = "True"
        /\ \A i \in (j + 1)..(k - 1) : history[i].call \notin {"initialize", "stop"}
\* some initialize before call k returned True and no stop has ended since
InitializedOnce(k) ==
    \E j \in 1..(k - 1) :
        /\ history[j].call = "initialize" /\ history[j].outcome = "True"
        /\ \A i \in (j + 1)..(k - 1) :
              ~(history[i].call = "stop" /\ history[i].outcome = "None")

\* C30: complete, type_info and eval send a request to the server only if
\* the most recent initialize returned True and no stop has happened since;
\* otherwise they return their empty result and send nothing.
QueriesNeedInitialize ==
    pc = "connection" =>
        \A k \in 1..Len(history) :
            (history[k].call \in Queries /\ ~Ready(k)) =>
                ~Sent(k) /\ history[k].outcome = "empty"

\* what the flag _initialized does give: a query sends nothing and returns
\* its empty result unless some initialize returned True since the last stop
\* that came to its end
QueriesNeedSomeInitialize ==
    pc = "connection" =>
        \A k \in 1..Len(history) :
            (history[k].call \in Queries /\ ~InitializedOnce(k)) =>
                ~Sent(k) /\ history[k].outcome = "empty"

=============================================================================
